---- MODULE Spec2Model ----
(***************************************************************************)
(* Model of the NovOS kernel: the buddy allocator of                       *)
(* crates/kernel/src/allocator/buddy.rs, the generic page table of         *)
(* crates/kernel/src/page.rs, the physical memory of pmem.rs behind the    *)
(* ticket mutex of crates/riscv/src/sync.rs, and the bring-up of the harts *)
(* of boot.rs and boot/harts.rs.  Modelled one by one after these: the     *)
(* mapping of the physical memory in boot.rs, the hart contexts of hart.rs *)
(* with the panic handler of panic.rs, the trap handler of trap.rs, the    *)
(* header of the device tree of crates/devicetree, init_log of crates/log, *)
(* the RwLock of sync.rs, and map_alloc and free of page.rs.               *)
(*                                                                         *)
(* Addresses are byte addresses.  TLC integers are 32 bit wide, so every   *)
(* address the model draws is below 2^31; no usize arithmetic of the code  *)
(* can wrap on these inputs, except the counters, see alloc_stats.         *)
(***************************************************************************)
EXTENDS Integers, Sequences, FiniteSets, TLC

\* ------------------------------------------------------------------------
\* Program constants
\* ------------------------------------------------------------------------

\* allocator.rs: pub const PAGE_SIZE: usize = 4096
PAGE_SIZE == 4096

\* buddy.rs: pub const MAX_ORDER: usize = 12
MAX_ORDER == 12

\* buddy.rs: pub const MIN_ORDER_SIZE: usize = super::PAGE_SIZE
MIN_ORDER_SIZE == PAGE_SIZE

\* The null pointer; Option<NonNull<T>>::None is represented by it.
NULL == 0

\* ------------------------------------------------------------------------
\* Bounds of the model
\* ------------------------------------------------------------------------

\* Number of operations in one run of the allocator.
MaxOps == 5

\* Number of blocks a client holds at the same time.
MaxOutstanding == 3

\* Number of regions handed to one allocator.
MaxRegions == 2

\* ------------------------------------------------------------------------
\* Inputs
\* ------------------------------------------------------------------------

\* The (start, end) pairs add_region is called with.
Regions ==
    { <<24576, 32768>>,        \* [0x6000, 0x8000): two pages, 8 KiB aligned
      <<65536, 81920>>,        \* [0x10000, 0x14000): 16 KiB, naturally aligned
      <<69632, 86016>>,        \* [0x11000, 0x15000): 16 KiB, page aligned only
      <<4096, 12288>>,         \* [0x1000, 0x3000): starts at the first page
      <<100, 5000>>,           \* less than a page after the start is aligned
      <<16777216, 33554432>>,  \* [0x1000000, 0x2000000): 16 MiB aligned
      <<50331648, 67108864>>,  \* [0x3000000, 0x4000000): 16 MiB aligned
      <<40000, 50000>> }       \* unaligned start and end

\* The orders allocate is called with.
AllocOrders == {0, 1, 2, MAX_ORDER - 1, MAX_ORDER}

VARIABLES
    orders,       \* BuddyAllocator.orders: head of each order's free list
    mem,          \* physical memory: page address -> (word index -> u64)
    stats,        \* BuddyAllocator.stats
    status,       \* "running", or how the kernel stopped: "panic", "hang"
    outstanding,  \* history: blocks returned by allocate, not yet deallocated
    regions,      \* history: the regions handed to add_region
    phase,        \* history: the shape of the run, see NextPhase
    base_total,   \* history: stats.total when the last region was added
    last,         \* history: the last call and its result
    nops,         \* number of calls made
    mode,         \* the paging mode M of PageTable<M>, "" without a table
    root,         \* PageTable.entries: address of the root table
    subtables,    \* PageTable.subtables
    mapped,       \* history: vaddrs of successful maps, not unmapped since
    plast,        \* history: the last page table call and its result
    pte,          \* a page-table entry, the u64 of Entry
    pte_kind,     \* the last classification of pte, and by which code
    blocked,      \* the ranges pmem::init keeps out of the allocator
    pmem_res,     \* the result of pmem::init, "none" before the call
    now_serving,  \* Mutex.now_serving of PHYS_MEM
    next_ticket,  \* Mutex.next_ticket of PHYS_MEM
    harts,        \* per hart: where it is in a pmem call, its ticket, the call
    boot_in,      \* what the boot hart is started with: device tree, memory
    phymem_offset,\* PHYSICAL_MEMORY_OFFSET, and its store still in flight
    satp,         \* per hart: the satp CSR
    bpc,          \* where the boot hart is in the boot sequence
    cores,        \* boot_all_harts: the harts the loop has still to visit
    hsm,          \* history: the sbi::hsm::start calls and their results
    staged,       \* per hart: the words written to the top of its stack
    spc,          \* per hart: where a secondary hart is after its start
    p2v,          \* per hart: the last phys2virt call, NoRead before it
    memory,       \* the regions of the /memory node of the device tree
    physmap,      \* _before_main: the loop that maps the physical memory
    sscratch,     \* per hart: the sscratch CSR
    contexts,     \* the heap: address -> the HartContext boxed there
    inited,       \* history: per hart, the id init_hart_context was given
    hcall,        \* history: the last call of hart.rs and its result
    trap_in,      \* the scause, stval and sepc trap_handler is called with
    trap_res,     \* what trap_handler did: the new sepc, or the panic
    blob,         \* the device tree blob: its header words, where its NUL bytes are
    dtree,        \* the DeviceTree from_ptr returned, if any
    dtres,        \* history: the last call on the DeviceTree and its result
    logger,       \* LOG: the installed global logger, or None
    log_calls,    \* history: the init_log calls and their results
    rwlock,       \* RwLock: the lock word, reader count above the writer bit
    rw,           \* per user of the RwLock: where it is in read() or write()
    table_lock,   \* PAGE_TABLE: next_ticket and now_serving of its mutex
    roots,        \* per hart: where it is with page::root(), its ticket
    subvec,       \* the subtables vector of the kernel table: len, capacity
    enter,        \* the boot hart of _before_main from pmem::init to rust_trampoline
    cpu,          \* the registers, CSRs and trap frame of a hart in _trap_handler
    lookup,       \* a device tree and the path lookups on it (find_nodes, find_node)
    va            \* the VirtualAddressAllocator and the call that runs on it

buddyVars ==
    <<orders, mem, stats, status, outstanding, regions, phase, base_total,
      last, nops>>

pageVars == <<mode, root, subtables, mapped, plast>>

entryVars == <<pte, pte_kind>>

\* the variables outside the allocator and the page table
pmemVars == <<blocked, pmem_res>>

syncVars == <<now_serving, next_ticket, harts>>

bootVars == <<boot_in, phymem_offset, satp, bpc, cores, hsm, staged, spc, p2v>>

earlyVars ==
    <<buddyVars, pageVars, entryVars, pmemVars, syncVars, bootVars>>

physVars == <<memory, physmap>>

\* the variables of the parts of the kernel modelled one by one below
ctxVars == <<sscratch, contexts, inited, hcall>>

trapVars == <<trap_in, trap_res>>

fdtVars == <<blob, dtree, dtres>>

logVars == <<logger, log_calls>>

rwVars == <<rwlock, rw>>

rootVars == <<table_lock, roots, subvec>>

enterVars == <<enter>>

frameVars == <<cpu>>

lookupVars == <<lookup>>

vaddrVars == <<va>>

lateVars == <<physVars, ctxVars, trapVars, fdtVars, logVars, rwVars, rootVars, enterVars, frameVars, lookupVars, vaddrVars>>

\* for each of these parts, the variables of all other parts
physRest == <<earlyVars, ctxVars, trapVars, fdtVars, logVars, rwVars, rootVars, enterVars, frameVars, lookupVars, vaddrVars>>

ctxRest == <<earlyVars, physVars, trapVars, fdtVars, logVars, rwVars, rootVars, enterVars, frameVars, lookupVars, vaddrVars>>

trapRest == <<earlyVars, physVars, ctxVars, fdtVars, logVars, rwVars, rootVars, enterVars, frameVars, lookupVars, vaddrVars>>

fdtRest == <<earlyVars, physVars, ctxVars, trapVars, logVars, rwVars, rootVars, enterVars, frameVars, lookupVars, vaddrVars>>

logRest == <<earlyVars, physVars, ctxVars, trapVars, fdtVars, rwVars, rootVars, enterVars, frameVars, lookupVars, vaddrVars>>

rwRest == <<earlyVars, physVars, ctxVars, trapVars, fdtVars, logVars, rootVars, enterVars, frameVars, lookupVars, vaddrVars>>

rootRest == <<earlyVars, physVars, ctxVars, trapVars, fdtVars, logVars, rwVars, enterVars, frameVars, lookupVars, vaddrVars>>

enterRest == <<earlyVars, physVars, ctxVars, trapVars, fdtVars, logVars, rwVars, rootVars, frameVars, lookupVars, vaddrVars>>

frameRest == <<earlyVars, physVars, ctxVars, trapVars, fdtVars, logVars, rwVars, rootVars, enterVars, lookupVars, vaddrVars>>

lookupRest == <<earlyVars, physVars, ctxVars, trapVars, fdtVars, logVars, rwVars, rootVars, enterVars, frameVars, vaddrVars>>

vaddrRest == <<earlyVars, physVars, ctxVars, trapVars, fdtVars, logVars, rwVars, rootVars, enterVars, frameVars, lookupVars>>

otherVars == <<entryVars, pmemVars, syncVars, bootVars, lateVars>>

vars == <<buddyVars, pageVars, otherVars>>

\* no page-table entry is under inspection
EntryIdle == pte = 0 /\ pte_kind = [by |-> "none"]

\* pmem::init was not called
PmemIdle == blocked = {} /\ pmem_res = "none"

\* Mutex::new, no hart running
SyncIdle == now_serving = 0 /\ next_ticket = 0 /\ harts = << >>

\* no hart has entered the kernel
BootIdle ==
    /\ boot_in = << >>
    /\ phymem_offset = [mem |-> 0, buf |-> << >>]
    /\ satp = << >>
    /\ bpc = "off"
    /\ cores = << >>
    /\ hsm = << >>
    /\ staged = << >>
    /\ spc = << >>
    /\ p2v = << >>

\* _before_main has not reached the mapping of the physical memory
PhysIdle == memory = << >> /\ physmap = [pc |-> "off"]

\* no hart has entered the kernel
CtxIdle ==
    /\ sscratch = << >>
    /\ contexts = << >>
    /\ inited = << >>
    /\ hcall = [op |-> "none"]

\* no trap was taken
TrapIdle == trap_in = << >> /\ trap_res = [kind |-> "none"]

\* no device tree was read
FdtIdle == blob = << >> /\ dtree = [some |-> FALSE] /\ dtres = [kind |-> "none"]

\* the logging system was not used
LogIdle == logger = "None" /\ log_calls = << >>

\* no RwLock is in use
RwIdle == rwlock = 0 /\ rw = << >>

\* the mutex of the kernel page table is not in use
RootIdle == table_lock = << >> /\ roots = << >> /\ subvec = << >>

\* the boot hart has not reached pmem::init
EnterIdle == enter = [pc |-> "off"]

\* no hart is in _trap_handler
FrameIdle == cpu = [at |-> "off"]

\* no path lookup is in progress
LookupIdle == lookup = [at |-> "off"]

\* the virtual address allocator is not in use
VaddrIdle == va = [at |-> "off"]

LateIdle == PhysIdle /\ CtxIdle /\ TrapIdle /\ FdtIdle /\ LogIdle /\ RwIdle /\ RootIdle /\ EnterIdle /\ FrameIdle /\ LookupIdle /\ VaddrIdle

OtherIdle == EntryIdle /\ PmemIdle /\ SyncIdle /\ BootIdle /\ LateIdle

\* ------------------------------------------------------------------------
\* buddy.rs, pure helpers
\* ------------------------------------------------------------------------

RECURSIVE Pow2(_)
Pow2(n) == IF n = 0 THEN 1 ELSE 2 * Pow2(n - 1)

\* allocator.rs: (addr + align - 1) & !(align - 1), align a power of two
align_up(addr, align) == ((addr + align - 1) \div align) * align

size_for_order(order) == Pow2(order) * MIN_ORDER_SIZE

\* block XOR size_for_order(order): the XOR flips the one bit of the size.
\* The result 0 is the NullPointer error of NonNull::new.
buddy_of(block, order) ==
    LET size == size_for_order(order)
    IN  IF (block \div size) % 2 = 0 THEN block + size ELSE block - size

\* ------------------------------------------------------------------------
\* The allocator as a value: [orders, mem, stats]
\* ------------------------------------------------------------------------

\* Memory is kept as the pages that hold a non-zero word, and of each page
\* the words that are not zero.  A page is 512 words of 8 bytes; the ListNode
\* of a free block is word 0 of its first page, entry i of a page table is
\* word i of its page.
EmptyMem == << >>

Rd(m, page, w) ==
    IF page \in DOMAIN m
    THEN IF w \in DOMAIN m[page] THEN m[page][w] ELSE 0
    ELSE 0

Wr(m, page, w, v) ==
    LET old  == IF page \in DOMAIN m THEN m[page] ELSE << >>
        new  == IF v = 0
                THEN [x \in DOMAIN old \ {w} |-> old[x]]
                ELSE (w :> v) @@ old
    IN  IF DOMAIN new = {}
        THEN [q \in DOMAIN m \ {page} |-> m[q]]
        ELSE (page :> new) @@ m

NewAllocator ==
    [ orders |-> [o \in 0..(MAX_ORDER - 1) |-> NULL],
      mem    |-> EmptyMem,
      stats  |-> [free |-> 0, allocated |-> 0, total |-> 0] ]

\* alloc_stats without the update of the allocated counter
alloc_stats_leak(a, size) == [a EXCEPT !.stats.free = @ - size]

\* The counters are usize.  A counter that the code decrements below zero
\* wraps to 2^64 - n; the model keeps the integer -n as the representative of
\* that residue, which preserves every equation between sums of counters.
alloc_stats(a, size) ==
    [a EXCEPT !.stats.free = @ - size, !.stats.allocated = @ + size]

dealloc_stats(a, size) ==
    [a EXCEPT !.stats.free = @ + size, !.stats.allocated = @ - size]

order_push(a, order, ptr) ==
    [a EXCEPT !.mem = Wr(a.mem, ptr, 0, a.orders[order]),
              !.orders[order] = ptr]

\* Returns the allocator and the popped head (NULL for None).
order_pop(a, order) ==
    LET head == a.orders[order]
    IN  IF head = NULL
        THEN [a |-> a, blk |-> NULL]
        ELSE [a |-> [a EXCEPT !.orders[order] = Rd(a.mem, head, 0)],
              blk |-> head]

\* The walk of order_remove.  prev names the slot `cur` points to: the head
\* slot of the order (NULL) or the next word of the node prev.  A walk that
\* takes more steps than there are pages with a non-zero word is in a cycle
\* and never returns.
RECURSIVE remove_walk(_, _, _, _, _)
remove_walk(a, order, to_remove, prev, fuel) ==
    LET ptr == IF prev = NULL THEN a.orders[order] ELSE Rd(a.mem, prev, 0)
    IN  IF ptr = NULL THEN [a |-> a, found |-> "no"]
        ELSE IF ptr = to_remove
        THEN [a |-> IF prev = NULL
                    THEN [a EXCEPT !.orders[order] = Rd(a.mem, ptr, 0)]
                    ELSE [a EXCEPT !.mem = Wr(a.mem, prev, 0,
                                              Rd(a.mem, ptr, 0))],
              found |-> "yes"]
        ELSE IF fuel = 0 THEN [a |-> a, found |-> "hang"]
        ELSE remove_walk(a, order, to_remove, ptr, fuel - 1)

order_remove(a, order, to_remove) ==
    remove_walk(a, order, to_remove, NULL, Cardinality(DOMAIN a.mem) + 1)

\* ------------------------------------------------------------------------
\* add_region
\* ------------------------------------------------------------------------

\* The loop of add_single_region: the order the block at start gets, or -1
\* when buddy_of fails with NullPointer.
RECURSIVE single_region_order(_, _, _)
single_region_order(start, end, order) ==
    IF ~(order < MAX_ORDER - 1) THEN order
    ELSE LET size    == size_for_order(order + 1)
             new_end == start + size
             buddy   == buddy_of(start, order + 1)
         IN  IF ~(new_end <= end) THEN order
             ELSE IF buddy = NULL THEN -1
             ELSE IF new_end <= end /\ start <= buddy /\ buddy <= end
                  THEN single_region_order(start, end, order + 1)
                  ELSE order

add_single_region(a, start, end) ==
    LET order == single_region_order(start, end, 0)
    IN  IF order = -1
        THEN [a |-> a, ok |-> FALSE, err |-> "NullPointer", order |-> 0]
        ELSE LET size == size_for_order(order)
                 a1   == order_push(a, order, start)
             IN  [a |-> [a1 EXCEPT !.stats.total = @ + size,
                                   !.stats.free = @ + size],
                  ok |-> TRUE, err |-> "", order |-> order]

\* The while loop of add_region; pushed is the log of the blocks pushed.
RECURSIVE add_region_loop(_, _, _, _, _)
add_region_loop(a, start, end, total, pushed) ==
    IF ~(end - start >= MIN_ORDER_SIZE /\ end >= start)
    THEN [a |-> a, ok |-> TRUE, err |-> "", bytes |-> total, pushed |-> pushed]
    ELSE LET r == add_single_region(a, start, end)
         IN  IF ~r.ok
             THEN [a |-> r.a, ok |-> FALSE, err |-> r.err, bytes |-> 0,
                   pushed |-> pushed]
             ELSE add_region_loop(r.a, start + size_for_order(r.order), end,
                                  total + size_for_order(r.order),
                                  Append(pushed, <<start, r.order>>))

add_region(a, start0, end) ==
    LET start == align_up(start0, MIN_ORDER_SIZE)
        sub   == IF end >= start THEN end - start ELSE 0   \* saturating_sub
    IN  IF sub < MIN_ORDER_SIZE
        THEN [a |-> a, ok |-> FALSE, err |-> "RegionTooSmall", bytes |-> 0,
              pushed |-> << >>]
        ELSE IF end < start
        THEN [a |-> a, ok |-> FALSE, err |-> "InvalidRegion", bytes |-> 0,
              pushed |-> << >>]
        ELSE add_region_loop(a, start, end, 0, << >>)

\* ------------------------------------------------------------------------
\* allocate
\* ------------------------------------------------------------------------

\* allocate without the map_err of the slow path: the error of the order above
\* is passed on
RECURSIVE allocate_no_map_err(_, _)
allocate_no_map_err(a, order) ==
    IF order >= MAX_ORDER
    THEN [a |-> a, ok |-> FALSE, err |-> "OrderTooLarge", ptr |-> NULL]
    ELSE LET p == order_pop(a, order)
         IN  IF p.blk # NULL
             THEN [a |-> alloc_stats(p.a, size_for_order(order)),
                   ok |-> TRUE, err |-> "", ptr |-> p.blk]
             ELSE LET r == allocate_no_map_err(a, order + 1)
                  IN  IF ~r.ok
                      THEN r
                      ELSE LET buddy == buddy_of(r.ptr, order)
                           IN  IF buddy = NULL
                               THEN [a |-> r.a, ok |-> FALSE,
                                     err |-> "NullPointer", ptr |-> NULL]
                               ELSE [a |-> dealloc_stats(
                                              order_push(r.a, order, buddy),
                                              size_for_order(order)),
                                     ok |-> TRUE, err |-> "", ptr |-> r.ptr]

RECURSIVE allocate(_, _)
allocate(a, order) ==
    IF order >= MAX_ORDER
    THEN [a |-> a, ok |-> FALSE, err |-> "OrderTooLarge", ptr |-> NULL]
    ELSE LET p == order_pop(a, order)
         IN  IF p.blk # NULL
             THEN [a |-> alloc_stats(p.a, size_for_order(order)),
                   ok |-> TRUE, err |-> "", ptr |-> p.blk]
             ELSE LET r == allocate(a, order + 1)
                  IN  IF ~r.ok
                      THEN [a |-> r.a, ok |-> FALSE,
                            err |-> "NoMemoryAvailable", ptr |-> NULL]
                      ELSE LET buddy == buddy_of(r.ptr, order)
                           IN  IF buddy = NULL
                               THEN [a |-> r.a, ok |-> FALSE,
                                     err |-> "NullPointer", ptr |-> NULL]
                               ELSE [a |-> dealloc_stats(
                                              order_push(r.a, order, buddy),
                                              size_for_order(order)),
                                     ok |-> TRUE, err |-> "", ptr |-> r.ptr]

\* ------------------------------------------------------------------------
\* deallocate
\* ------------------------------------------------------------------------

Min(x, y) == IF x <= y THEN x ELSE y

\* res is "ok", an error name, "panic" (self.orders[order] with
\* order >= MAX_ORDER is an index out of bounds) or "hang".
RECURSIVE deallocate(_, _, _)
deallocate(a, block, order) ==
    LET buddy_addr == buddy_of(block, order)
    IN  IF buddy_addr = NULL THEN [a |-> a, res |-> "NullPointer"]
        ELSE IF order >= MAX_ORDER THEN [a |-> a, res |-> "panic"]
        ELSE LET rm == order_remove(a, order, buddy_addr)
             IN  IF rm.found = "hang" THEN [a |-> a, res |-> "hang"]
                 ELSE IF rm.found = "yes"
                 THEN deallocate(alloc_stats(rm.a, size_for_order(order)),
                                 Min(buddy_addr, block), order + 1)
                 ELSE [a |-> dealloc_stats(order_push(a, order, block),
                                           size_for_order(order)),
                       res |-> "ok"]

\* ------------------------------------------------------------------------
\* The allocator as a state machine
\* ------------------------------------------------------------------------

Alloc == [orders |-> orders, mem |-> mem, stats |-> stats]

SetAlloc(a) ==
    /\ orders' = a.orders
    /\ mem' = a.mem
    /\ stats' = a.stats

RemoveAt(s, i) == SubSeq(s, 1, i - 1) \o SubSeq(s, i + 1, Len(s))

\* [start, end) of an added region, after the alignment of start
RegionRange(r) == <<align_up(r[1], MIN_ORDER_SIZE), r[2]>>

Overlap(s1, e1, s2, e2) == s1 < e2 /\ s2 < e1

\* BuddyAllocator::new(), no call made yet
BuddyNew ==
    /\ orders = NewAllocator.orders
    /\ mem = NewAllocator.mem
    /\ stats = NewAllocator.stats
    /\ status = "running"
    /\ outstanding = << >>
    /\ regions = {}
    /\ phase = "regions"
    /\ base_total = 0
    /\ last = [op |-> "new"]
    /\ nops = 0

\* no page table exists
PageIdle ==
    /\ mode = ""
    /\ root = NULL
    /\ subtables = << >>
    /\ mapped = {}
    /\ plast = [op |-> "none"]

BuddyInit == BuddyNew /\ PageIdle /\ OtherIdle

\* How the client's run is shaped so far: "regions" while only add_region
\* was called, "allocs" while successful allocate calls followed, "frees"
\* while deallocate calls of the returned blocks followed, else "mixed".
NextPhase(op, ok) ==
    CASE op = "add_region" /\ phase = "regions" -> "regions"
      [] op = "allocate" /\ ok /\ phase \in {"regions", "allocs"} -> "allocs"
      [] op = "deallocate" /\ phase \in {"allocs", "frees"} -> "frees"
      [] OTHER -> "mixed"

\* unsafe fn add_region: the caller hands over memory it owns, so a region
\* never overlaps one handed over before.
AddRegion(r) ==
    /\ status = "running"
    /\ nops < MaxOps
    /\ Cardinality(regions) < MaxRegions
    /\ \A q \in regions :
          ~Overlap(RegionRange(r)[1], RegionRange(r)[2],
                   RegionRange(q)[1], RegionRange(q)[2])
    /\ LET res == add_region(Alloc, r[1], r[2])
       IN  /\ SetAlloc(res.a)
           /\ last' = [op |-> "add_region", start |-> r[1], end |-> r[2],
                       ok |-> res.ok, err |-> res.err, bytes |-> res.bytes,
                       pushed |-> res.pushed,
                       dtotal |-> res.a.stats.total - stats.total,
                       dfree |-> res.a.stats.free - stats.free]
           /\ phase' = NextPhase("add_region", res.ok)
           /\ base_total' = IF phase' = "regions" THEN res.a.stats.total
                            ELSE base_total
    /\ regions' = regions \cup {r}
    /\ nops' = nops + 1
    /\ UNCHANGED <<status, outstanding, pageVars, otherVars>>

Allocate(order) ==
    /\ status = "running"
    /\ nops < MaxOps
    /\ Len(outstanding) < MaxOutstanding
    /\ LET res == allocate(Alloc, order)
       IN  /\ SetAlloc(res.a)
           /\ last' = [op |-> "allocate", order |-> order, ok |-> res.ok,
                       err |-> res.err, ptr |-> res.ptr]
           /\ outstanding' = IF res.ok
                             THEN Append(outstanding,
                                         [ptr |-> res.ptr, order |-> order])
                             ELSE outstanding
           /\ phase' = NextPhase("allocate", res.ok)
    /\ nops' = nops + 1
    /\ UNCHANGED <<status, regions, base_total, pageVars, otherVars>>

\* unsafe fn deallocate: the block was returned by allocate with this order
\* and is deallocated once.
Deallocate(i) ==
    /\ status = "running"
    /\ nops < MaxOps
    /\ i \in 1..Len(outstanding)
    /\ LET b   == outstanding[i]
           res == deallocate(Alloc, b.ptr, b.order)
       IN  /\ SetAlloc(res.a)
           /\ last' = [op |-> "deallocate", ptr |-> b.ptr, order |-> b.order,
                       ok |-> res.res = "ok", err |-> res.res]
           /\ status' = IF res.res \in {"panic", "hang"} THEN res.res
                        ELSE "running"
           /\ phase' = NextPhase("deallocate", res.res = "ok")
    /\ outstanding' = RemoveAt(outstanding, i)
    /\ nops' = nops + 1
    /\ UNCHANGED <<regions, base_total, pageVars, otherVars>>

BuddyNext ==
    \/ \E r \in Regions : AddRegion(r)
    \/ \E order \in AllocOrders : Allocate(order)
    \/ \E i \in 1..MaxOutstanding : Deallocate(i)

SpecBuddy == BuddyInit /\ [][BuddyNext]_vars

\* ------------------------------------------------------------------------
\* Views of the allocator state
\* ------------------------------------------------------------------------

\* The blocks on the free list of order o, head first.  A list that runs
\* into a cycle is cut.
RECURSIVE list_from(_, _)
list_from(ptr, fuel) ==
    IF ptr = NULL \/ fuel = 0 THEN << >>
    ELSE <<ptr>> \o list_from(Rd(mem, ptr, 0), fuel - 1)

FreeList(o) == list_from(orders[o], Cardinality(DOMAIN mem) + 1)

Range(s) == {s[i] : i \in DOMAIN s}

OrderSet == 0..(MAX_ORDER - 1)

\* <<address, order>> of every block on a free list
FreeBlocks == UNION {{<<b, o>> : b \in Range(FreeList(o))} : o \in OrderSet}

RECURSIVE SumSeq(_)
SumSeq(s) == IF s = << >> THEN 0 ELSE Head(s) + SumSeq(Tail(s))

FreeBytes ==
    SumSeq([o \in 1..MAX_ORDER |-> Len(FreeList(o - 1)) * size_for_order(o - 1)])

OutstandingBytes ==
    SumSeq([i \in 1..Len(outstanding) |-> size_for_order(outstanding[i].order)])

BlockOverlap(p1, o1, p2, o2) ==
    Overlap(p1, p1 + size_for_order(o1), p2, p2 + size_for_order(o2))

\* ------------------------------------------------------------------------
\* C1: after any sequence of add_region, allocate and deallocate calls,
\* whether they succeed or fail, free + allocated = total.
\* ------------------------------------------------------------------------
C1_StatsBalance == stats.free + stats.allocated = stats.total

\* a block was split and a block was given back, and some calls failed
C1_Witness ==
    /\ last.op = "deallocate"
    /\ stats.allocated > 0
    /\ stats.free > 0
    /\ Len(FreeList(0)) > 0

\* ------------------------------------------------------------------------
\* C2: buddy roundtrip.  After add_region calls, successful allocate calls
\* and then the deallocate of each returned block at its order, every
\* deallocate completed successfully and the allocator ends with
\* allocated = 0 and the total it had before the sequence.
\* ------------------------------------------------------------------------
C2_Roundtrip ==
    phase = "frees" =>
        /\ last.ok
        /\ status = "running"
        /\ outstanding = << >> =>
              stats.allocated = 0 /\ stats.total = base_total

\* ------------------------------------------------------------------------
\* C3: buddy alignment.  Every pointer p returned by a successful
\* allocate(o) satisfies p mod (2^o * 4096) = 0.
\* ------------------------------------------------------------------------
C3_Alignment ==
    \A i \in 1..Len(outstanding) :
        outstanding[i].ptr % size_for_order(outstanding[i].order) = 0

\* ------------------------------------------------------------------------
\* C4: buddy disjointness.  The ranges of two blocks returned by allocate
\* and not yet deallocated do not overlap, and none of them overlaps a block
\* on a free list.
\* ------------------------------------------------------------------------
C4_Disjoint ==
    /\ \A i, j \in 1..Len(outstanding) :
          i # j => ~BlockOverlap(outstanding[i].ptr, outstanding[i].order,
                                 outstanding[j].ptr, outstanding[j].order)
    /\ \A i \in 1..Len(outstanding) : \A f \in FreeBlocks :
          ~BlockOverlap(outstanding[i].ptr, outstanding[i].order, f[1], f[2])

\* ------------------------------------------------------------------------
\* C5: eager coalescing.  For every order o no block on free list o has its
\* buddy on free list o.
\* ------------------------------------------------------------------------
C5_NoFreeBuddies ==
    \A o \in OrderSet : \A b \in Range(FreeList(o)) :
        buddy_of(b, o) \notin Range(FreeList(o))

\* ------------------------------------------------------------------------
\* C6: the free counter is the sum of the sizes of the blocks on the free
\* lists and the allocated counter is the sum of the sizes of the blocks
\* returned by allocate and not yet deallocated.
\* ------------------------------------------------------------------------
C6_Counters ==
    status = "running" =>
        /\ stats.free = FreeBytes
        /\ stats.allocated = OutstandingBytes

\* ------------------------------------------------------------------------
\* C7: allocate(order) returns OrderTooLarge when order >= MAX_ORDER and
\* NoMemoryAvailable when order < MAX_ORDER and the free lists of the orders
\* order..MAX_ORDER-1 are empty; in both cases the free lists and the
\* counters are left unchanged.
\* ------------------------------------------------------------------------
C7_AllocateFailures ==
    [][(nops' = nops + 1 /\ last'.op = "allocate") =>
         /\ last'.order >= MAX_ORDER =>
               /\ ~last'.ok /\ last'.err = "OrderTooLarge"
               /\ UNCHANGED <<orders, mem, stats>>
         /\ (/\ last'.order < MAX_ORDER
             /\ \A o \in last'.order..(MAX_ORDER - 1) : orders[o] = NULL) =>
               /\ ~last'.ok /\ last'.err = "NoMemoryAvailable"
               /\ UNCHANGED <<orders, mem, stats>>
      ]_vars

\* memory was added, but no block of the requested order or above is free
C7_Witness ==
    /\ last.op = "allocate"
    /\ last.err = "NoMemoryAvailable"
    /\ last.order < MAX_ORDER
    /\ stats.free > 0

\* ------------------------------------------------------------------------
\* C8: add_region(start, end) pushes blocks that are pairwise disjoint, lie
\* inside [align_up(start, 4096), end), are naturally aligned to their size
\* and of the largest order that alignment and the remaining length allow;
\* the returned byte count is the sum of the pushed sizes, the increase of
\* total and of free.
\* ------------------------------------------------------------------------
NaturalOrder(addr, end) ==
    CHOOSE o \in OrderSet :
        /\ addr % size_for_order(o) = 0 /\ addr + size_for_order(o) <= end
        /\ \A q \in OrderSet :
              (addr % size_for_order(q) = 0 /\ addr + size_for_order(q) <= end)
                  => q <= o

C8_AddRegionBlocks ==
    last.op = "add_region" =>
        LET blocks == last.pushed
            sum    == SumSeq([i \in 1..Len(blocks) |->
                                 size_for_order(blocks[i][2])])
        IN  /\ \A i, j \in 1..Len(blocks) :
                  i # j => ~BlockOverlap(blocks[i][1], blocks[i][2],
                                         blocks[j][1], blocks[j][2])
            /\ \A i \in 1..Len(blocks) :
                  /\ align_up(last.start, PAGE_SIZE) <= blocks[i][1]
                  /\ blocks[i][1] + size_for_order(blocks[i][2]) <= last.end
                  /\ blocks[i][1] % size_for_order(blocks[i][2]) = 0
                  /\ blocks[i][2] = NaturalOrder(blocks[i][1], last.end)
            /\ last.dtotal = sum /\ last.dfree = sum
            /\ last.ok => last.bytes = sum

\* ------------------------------------------------------------------------
\* C30: no deallocate call indexes self.orders with MAX_ORDER or more: a
\* call whose merge chain reaches the top order returns without the panic
\* of an index out of bounds.
\* ------------------------------------------------------------------------
C30_MergeStaysInBounds ==
    last.op = "deallocate" => last.err # "panic" /\ status # "panic"

\* ========================================================================
\* The generic page table, page.rs
\* ========================================================================

\* Number of page table calls in one run.
MaxPageOps == 3

\* x >> n and x & (2^n - 1) for the values of the model, all below 2^31
Shr(x, n) == IF n >= 31 THEN 0 ELSE x \div Pow2(n)

LowBits(x, n) == IF n >= 31 THEN x ELSE x % Pow2(n)

\* page/types.rs, PageSize::vpn_idx
vpn_idx(size) ==
    CASE size = "Kilopage" -> 0
      [] size = "Megapage" -> 1
      [] size = "Gigapage" -> 2
      [] size = "Terapage" -> 3

\* page/types.rs, PageSize::size, as the exponent of the power of two:
\* 4 KiB = 2^12, 2 MiB = 2^21, 1 GiB = 2^30, 512 GiB = 2^39
size_bits(size) ==
    CASE size = "Kilopage" -> 12
      [] size = "Megapage" -> 21
      [] size = "Gigapage" -> 30
      [] size = "Terapage" -> 39

\* page/types.rs, PageSize::is_aligned: addr % size == 0
is_aligned(size, addr) == LowBits(addr, size_bits(size)) = 0

\* page/modes.rs: Sv39, const LEVELS: usize = 3
LEVELS_SV39 == 3

\* Sv48 is the four-level mode; its impl is not part of the sources at hand.
LEVELS_SV48 == 4

\* PagingMode::LEVELS
LEVELS(m) == IF m = "Sv39" THEN LEVELS_SV39 ELSE LEVELS_SV48

\* page/modes.rs: Sv39 accepts addresses up to 0x7F_FFFF_FFFF, 39 bits
MAX_ADDRESS_BITS_SV39 == 39

\* the 48 bit mode
MAX_ADDRESS_BITS_SV48 == 48

\* PagingMode::MAX_ADDRESS, as the number of address bits of the mode
MAX_ADDRESS_BITS(m) ==
    IF m = "Sv39" THEN MAX_ADDRESS_BITS_SV39 ELSE MAX_ADDRESS_BITS_SV48

\* page.rs, PageTable::vpn: (vaddr >> (12 + idx * 9)) & 0x1FF
vpn(vaddr, idx) == Shr(vaddr, 12 + idx * 9) % 512

\* page.rs, Entry::VALID
VALID == 1

\* page.rs, Entry::flags: self.0 as u8 >> 1 << 1
entry_flags(e) == (e % 256) - (e % 2)

\* page.rs, Entry::kind
entry_kind(e) ==
    LET valid == e % 2 = 1
    IN  IF valid /\ entry_flags(e) = 0 THEN "Branch"
        ELSE IF valid THEN "Leaf"
        ELSE "None"

\* the table a branch names: ((self.0 >> 10) & 0x0FFF_FFFF_FFFF) << 12
entry_next(e) == (e \div 1024) * 4096

\* x | VALID
OrValid(x) == IF x % 2 = 1 THEN x ELSE x + VALID

\* pmem.rs, zalloc_order: allocate and fill the block with zeros
zalloc_order(a, order) ==
    LET zero(r) ==
            LET pages == {r.ptr + k * PAGE_SIZE : k \in 0..(Pow2(order) - 1)}
            IN  IF ~r.ok THEN r
                ELSE [r EXCEPT !.a.mem =
                         [q \in DOMAIN r.a.mem \ pages |-> r.a.mem[q]]]
    IN  CHOOSE x \in {zero(r) : r \in {allocate(a, order)}} : TRUE

\* PageTable::new: the root is a Box of 512 zero entries in a page of the
\* physical allocator.
NewPageTable(a) == zalloc_order(a, 0)

\* The loop of map over the levels LEVELS-1 .. size.vpn_idx()+1.  Returns
\* the allocator, the subtables and the table the mapping goes into.
RECURSIVE map_walk(_, _, _, _, _, _)
map_walk(a, subs, table, vaddr, vpn_i, last_i) ==
    IF vpn_i <= last_i
    THEN [a |-> a, subs |-> subs, table |-> table, res |-> "Ok"]
    ELSE LET i    == vpn(vaddr, vpn_i)
             e    == Rd(a.mem, table, i)
             kind == entry_kind(e)
             descend(a2, subs2, next) ==
                 CHOOSE x \in {map_walk(b, s, next, vaddr, vpn_i - 1, last_i) :
                                  b \in {a2}, s \in {subs2}} : TRUE
         IN  IF kind = "Leaf"
             THEN [a |-> a, subs |-> subs, table |-> table,
                   res |-> "AlreadyMapped"]
             ELSE IF kind = "Branch"
             THEN descend(a, subs, entry_next(e))
             ELSE LET insert(z) ==
                          IF ~z.ok
                          THEN [a |-> z.a, subs |-> subs, table |-> table,
                                res |-> "Alloc"]
                          ELSE descend(
                                 [z.a EXCEPT !.mem = Wr(z.a.mem, table, i,
                                                        OrValid(z.ptr \div 4))],
                                 Append(subs, z.ptr), z.ptr)
                  IN  CHOOSE x \in {insert(z) : z \in {zalloc_order(a, 0)}} :
                          TRUE

\* map without the alignment check of paddr and vaddr
map_no_align_check(a, m, rt, subs, paddr, vaddr, size, flags) ==
    LET fail(err) == [a |-> a, subs |-> subs, res |-> err, fence |-> -1]
    IN  IF vpn_idx(size) >= LEVELS(m) THEN fail("UnsupportedPageSize")
        ELSE IF Shr(vaddr, MAX_ADDRESS_BITS(m)) # 0 THEN fail("InvalidAddress")
        ELSE LET last_vpn == vpn(vaddr, vpn_idx(size))
                 ppn == paddr \div 4096
                 new_entry == OrValid(ppn * 1024 + flags)
                 write(w) ==
                     LET entry == Rd(w.a.mem, w.table, last_vpn)
                     IN  IF w.res # "Ok"
                         THEN [a |-> w.a, subs |-> w.subs, res |-> w.res,
                               fence |-> -1]
                         ELSE IF entry_kind(entry) = "Leaf"
                         THEN [a |-> w.a, subs |-> w.subs,
                               res |-> "AlreadyMapped", fence |-> -1]
                         ELSE [a |-> [w.a EXCEPT !.mem =
                                         Wr(w.a.mem, w.table, last_vpn,
                                            new_entry)],
                               subs |-> w.subs, res |-> "Ok",
                               fence |-> vaddr]
             IN  CHOOSE x \in {write(w) :
                                 w \in {map_walk(a, subs, rt, vaddr,
                                                 LEVELS(m) - 1,
                                                 vpn_idx(size))}} : TRUE

\* PageTable::map.  fence is the address of the sfence.vma, -1 without one.
map(a, m, rt, subs, paddr, vaddr, size, flags) ==
    LET fail(err) == [a |-> a, subs |-> subs, res |-> err, fence |-> -1]
    IN  IF vpn_idx(size) >= LEVELS(m) THEN fail("UnsupportedPageSize")
        ELSE IF Shr(vaddr, MAX_ADDRESS_BITS(m)) # 0 THEN fail("InvalidAddress")
        ELSE IF ~is_aligned(size, paddr) \/ ~is_aligned(size, vaddr)
        THEN fail("UnalignedAddress")
        ELSE LET last_vpn == vpn(vaddr, vpn_idx(size))
                 ppn == paddr \div 4096
                 new_entry == OrValid(ppn * 1024 + flags)
                 write(w) ==
                     LET entry == Rd(w.a.mem, w.table, last_vpn)
                     IN  IF w.res # "Ok"
                         THEN [a |-> w.a, subs |-> w.subs, res |-> w.res,
                               fence |-> -1]
                         ELSE IF entry_kind(entry) = "Leaf"
                         THEN [a |-> w.a, subs |-> w.subs,
                               res |-> "AlreadyMapped", fence |-> -1]
                         ELSE [a |-> [w.a EXCEPT !.mem =
                                         Wr(w.a.mem, w.table, last_vpn,
                                            new_entry)],
                               subs |-> w.subs, res |-> "Ok",
                               fence |-> vaddr]
             IN  CHOOSE x \in {write(w) :
                                 w \in {map_walk(a, subs, rt, vaddr,
                                                 LEVELS(m) - 1,
                                                 vpn_idx(size))}} : TRUE

\* PageTable::traverse.  found is "leaf", "none", or "panic" for the
\* unreachable!() of the size match; the entry is word w of page table.
RECURSIVE traverse_walk(_, _, _, _)
traverse_walk(m, table, vaddr, idx) ==
    LET i    == vpn(vaddr, idx)
        e    == Rd(m, table, i)
        kind == entry_kind(e)
    IN  IF kind = "None" THEN [found |-> "none"]
        ELSE IF kind = "Leaf"
        THEN IF idx \in {0, 1, 2}
             THEN [found |-> "leaf", table |-> table, w |-> i, idx |-> idx,
                   size |-> CASE idx = 0 -> "Kilopage"
                              [] idx = 1 -> "Megapage"
                              [] idx = 2 -> "Gigapage"]
             ELSE [found |-> "panic"]
        ELSE IF idx = 0 THEN [found |-> "none"]
        ELSE traverse_walk(m, entry_next(e), vaddr, idx - 1)

traverse(m, md, rt, vaddr) == traverse_walk(m, rt, vaddr, LEVELS(md) - 1)

\* PageTable::translate
translate(m, md, rt, vaddr) ==
    LET t == traverse(m, md, rt, vaddr)
    IN  IF t.found # "leaf" THEN [found |-> t.found]
        ELSE LET e   == Rd(m, t.table, t.w)
                 off == LowBits(vaddr, size_bits(t.size))
             IN  [found |-> "leaf", paddr |-> (e \div 1024) * 4096 + off,
                  size |-> t.size, flags |-> entry_flags(e)]

\* PageTable::unmap
unmap(m, md, rt, vaddr) ==
    LET t == traverse(m, md, rt, vaddr)
    IN  IF t.found = "none" THEN [mem |-> m, res |-> "false"]
        ELSE IF t.found = "panic" THEN [mem |-> m, res |-> "panic"]
        ELSE [mem |-> Wr(m, t.table, t.w, 0), res |-> "true"]

\* ------------------------------------------------------------------------
\* The page table as a state machine
\* ------------------------------------------------------------------------

\* The memory the physical allocator is given before the table is made:
\* [0x100000, 0x108000), eight pages.
PageRegion == <<1048576, 1081344>>

Modes == {"Sv39", "Sv48"}

\* 0x0, 0x4000_0000, 0x4020_0000, 0x4020_1000
VAddrs == {0, 1073741824, 1075838976, 1075843072}

\* The <<paddr, vaddr, size>> map is called with.
MapRequests ==
    { <<2097152, 1075838976, "Megapage">>,    \* 0x20_0000 at 0x4020_0000
      <<2109440, 1075838976, "Kilopage">>,    \* 0x20_3000 at 0x4020_0000
      <<2109440, 1075843072, "Kilopage">>,    \* 0x20_3000 at 0x4020_1000
      <<2109440, 1075838976, "Megapage">>,    \* paddr not aligned
      <<2097152, 1075843072, "Megapage">>,    \* vaddr not aligned
      <<1073741824, 1073741824, "Gigapage">>, \* 0x4000_0000 at 0x4000_0000
      <<0, 0, "Terapage">>,
      <<4096, 0, "Terapage">>,                \* paddr not aligned
      <<2097152, 0, "Kilopage">> }            \* 0x20_0000 at 0x0

\* page/types.rs, Flags: READ = 2, WRITE = 4, USER = 16
\* empty, READ, READ | WRITE | USER
FlagSets == {0, 2, 22}

PageInit ==
    /\ mode \in Modes
    /\ \E t \in {NewPageTable(add_region(NewAllocator, PageRegion[1],
                                           PageRegion[2]).a)} :
           /\ orders = t.a.orders
           /\ mem = t.a.mem
           /\ stats = t.a.stats
           /\ root = t.ptr
    /\ status = "running"
    /\ outstanding = << >>
    /\ regions = {PageRegion}
    /\ phase = "mixed"
    /\ base_total = 0
    /\ last = [op |-> "new"]
    /\ nops = 0
    /\ subtables = << >>
    /\ mapped = {}
    /\ plast = [op |-> "new"]
    /\ OtherIdle

Map(paddr, vaddr, size, flags) ==
    /\ status = "running"
    /\ nops < MaxPageOps
    /\ \E r \in {map(Alloc, mode, root, subtables, paddr, vaddr, size, flags)} :
           /\ SetAlloc(r.a)
           /\ subtables' = r.subs
           /\ plast' = [op |-> "map", paddr |-> paddr, vaddr |-> vaddr,
                        size |-> size, flags |-> flags, res |-> r.res,
                        fence |-> r.fence]
           /\ mapped' = IF r.res = "Ok" THEN mapped \cup {vaddr} ELSE mapped
    /\ nops' = nops + 1
    /\ UNCHANGED <<status, outstanding, regions, phase, base_total, last,
                   mode, root, otherVars>>

Unmap(vaddr) ==
    /\ status = "running"
    /\ nops < MaxPageOps
    /\ \E r \in {unmap(mem, mode, root, vaddr)} :
           /\ mem' = r.mem
           /\ plast' = [op |-> "unmap", vaddr |-> vaddr, res |-> r.res]
           /\ status' = IF r.res = "panic" THEN "panic" ELSE "running"
    /\ mapped' = mapped \ {vaddr}
    /\ nops' = nops + 1
    /\ UNCHANGED <<orders, stats, outstanding, regions, phase, base_total,
                   last, mode, root, subtables, otherVars>>

\* page.rs impl Drop for PageTable: pmem::free, that is deallocate with
\* order 0, for every subtable in the order of the vector; the result of a
\* call is ignored.  res is "ok", or how a call stopped the kernel.
RECURSIVE drop(_, _)
drop(a, subs) ==
    IF subs = << >> THEN [a |-> a, res |-> "ok"]
    ELSE CHOOSE x \in {IF r.res \in {"panic", "hang"} THEN r
                       ELSE drop(r.a, Tail(subs)) :
                       r \in {deallocate(a, Head(subs), 0)}} : TRUE

\* The page table goes out of scope.
Drop ==
    /\ status = "running"
    /\ \E r \in {drop(Alloc, subtables)} :
           /\ SetAlloc(r.a)
           /\ status' = IF r.res = "ok" THEN "dropped" ELSE r.res
    /\ subtables' = << >>
    /\ plast' = [op |-> "drop", subs |-> subtables]
    /\ UNCHANGED <<outstanding, regions, phase, base_total, last, nops, mode,
                   root, mapped, otherVars>>

PageNext ==
    \/ \E r \in MapRequests, f \in FlagSets : Map(r[1], r[2], r[3], f)
    \/ \E v \in VAddrs : Unmap(v)
    \/ Drop

SpecPage == PageInit /\ [][PageNext]_vars

\* ------------------------------------------------------------------------
\* Views of the page table
\* ------------------------------------------------------------------------

\* Flags::contains: every bit of g is a bit of f
contains(f, g) == \A k \in 0..7 : Shr(g, k) % 2 = 1 => Shr(f, k) % 2 = 1

\* Offsets into a page: 0, 8, 4 KiB - 1, 4 KiB, 2 MiB - 1, 2 MiB
Offsets == {0, 8, 4095, 4096, 2097151, 2097152}

\* the arguments pass the checks at the head of map
ValidRequest(paddr, vaddr, size) ==
    /\ vpn_idx(size) < LEVELS(mode)
    /\ is_aligned(size, paddr)
    /\ is_aligned(size, vaddr)

\* ------------------------------------------------------------------------
\* C9: page-table round trip.  After a map(p, v, s, f) that returned Ok,
\* translate(v) returns (p, s, flags containing f), and translate(a) returns
\* p + (a - v) with size s for every a in [v, v + size(s)).
\* ------------------------------------------------------------------------
C9_MapTranslate ==
    (plast.op = "map" /\ plast.res = "Ok") =>
        \A d \in Offsets :
            Shr(d, size_bits(plast.size)) = 0 =>
                LET t == translate(mem, mode, root, plast.vaddr + d)
                IN  /\ t.found = "leaf"
                    /\ t.paddr = plast.paddr + d
                    /\ t.size = plast.size
                    /\ contains(t.flags, plast.flags)

\* ------------------------------------------------------------------------
\* C10: after a successful map at v, a second map of the same v, with any
\* page size and flags that pass the argument checks of map, returns
\* AlreadyMapped and leaves the page-table entries and the translation of v
\* unchanged.
\* ------------------------------------------------------------------------
C10_SecondMapRejected ==
    [][(/\ nops' = nops + 1
        /\ plast'.op = "map"
        /\ plast'.vaddr \in mapped
        /\ ValidRequest(plast'.paddr, plast'.vaddr, plast'.size)) =>
          /\ plast'.res = "AlreadyMapped"
          /\ mem' = mem
          /\ translate(mem', mode, root, plast'.vaddr)
                = translate(mem, mode, root, plast'.vaddr)
      ]_vars

\* ------------------------------------------------------------------------
\* C11: unmap(v) returns true exactly when translate(v) returned a mapping
\* immediately before the call, and after any unmap(v) call translate(v)
\* returns None.
\* ------------------------------------------------------------------------
C11_Unmap ==
    [][(nops' = nops + 1 /\ plast'.op = "unmap") =>
          /\ (plast'.res = "true") <=>
                 (translate(mem, mode, root, plast'.vaddr).found = "leaf")
          /\ translate(mem', mode, root, plast'.vaddr).found = "none"
      ]_vars

\* ------------------------------------------------------------------------
\* C12: map with a physical or virtual address that is not aligned to the
\* chosen page size returns UnalignedAddress, allocates no subtable and
\* changes no page-table entry.
\* ------------------------------------------------------------------------
Misaligned(req) ==
    ~is_aligned(req.size, req.paddr) \/ ~is_aligned(req.size, req.vaddr)

\* the statement for every misaligned request
C12_UnalignedAny ==
    [][(nops' = nops + 1 /\ plast'.op = "map" /\ Misaligned(plast')) =>
          /\ plast'.res = "UnalignedAddress"
          /\ subtables' = subtables
          /\ UNCHANGED <<orders, mem, stats>>
      ]_vars

\* C12, for the requests that pass the two checks map makes before the
\* alignment check: the page size is one of the mode and the virtual address
\* is inside the range of the mode.
C12_Unaligned ==
    [][(/\ nops' = nops + 1 /\ plast'.op = "map" /\ Misaligned(plast')
        /\ vpn_idx(plast'.size) < LEVELS(mode)
        /\ Shr(plast'.vaddr, MAX_ADDRESS_BITS(mode)) = 0) =>
          /\ plast'.res = "UnalignedAddress"
          /\ subtables' = subtables
          /\ UNCHANGED <<orders, mem, stats>>
      ]_vars

\* a misaligned request was rejected by a table that holds a mapping
C12_Witness ==
    /\ plast.op = "map"
    /\ plast.res = "UnalignedAddress"
    /\ mapped # {}
    /\ subtables # << >>

\* ========================================================================
\* Classification of a page-table entry
\* ========================================================================

\* page/sv39.rs, Entry::perm: (self.0 >> 1) & 0b111
sv39_perm(e) == (e \div 2) % 8

\* page/sv39.rs, Entry::valid
sv39_valid(e) == e % 2 = 1

\* page/sv39.rs, Entry::branch
sv39_branch(e) == sv39_perm(e) = 0 /\ sv39_valid(e)

\* page/sv39.rs, Entry::kind
sv39_kind(e) ==
    IF sv39_valid(e) /\ sv39_branch(e) THEN "Branch"
    ELSE IF sv39_valid(e) THEN "Leaf"
    ELSE "None"

\* The entries that get classified: every value of the low byte (V, R, W, X,
\* U, G, A, D), under the physical page numbers 0, 1 and 0x203.
EntryPpns == {0, 1, 515}

EntryValues == {ppn * 1024 + low : ppn \in EntryPpns, low \in 0..255}

EntryInit ==
    /\ BuddyNew
    /\ PageIdle
    /\ pte \in EntryValues
    /\ pte_kind = [by |-> "none"]
    /\ PmemIdle
    /\ SyncIdle
    /\ BootIdle
    /\ LateIdle

\* page.rs, Entry::kind, the entry of the generic page table
Kind ==
    /\ pte_kind.by = "none"
    /\ pte_kind' = [by |-> "page", kind |-> entry_kind(pte)]
    /\ UNCHANGED <<buddyVars, pageVars, bootVars, lateVars, pte, pmemVars, syncVars>>

\* page/sv39.rs, Entry::kind
Sv39Kind ==
    /\ pte_kind.by = "none"
    /\ pte_kind' = [by |-> "sv39", kind |-> sv39_kind(pte)]
    /\ UNCHANGED <<buddyVars, pageVars, bootVars, lateVars, pte, pmemVars, syncVars>>

EntryNext == Kind \/ Sv39Kind

SpecEntry == EntryInit /\ [][EntryNext]_vars

\* bit k of the entry
EntryBit(e, k) == Shr(e, k) % 2 = 1

\* ------------------------------------------------------------------------
\* C13: every page-table entry is classified as a branch exactly when
\* Valid=1 and R=W=X=0, as a leaf exactly when Valid=1 and at least one of
\* R, W, X is set, and as invalid otherwise, irrespective of the U, G, A and
\* D bits.
\* ------------------------------------------------------------------------
C13_Classification ==
    pte_kind.by # "none" =>
        LET v   == EntryBit(pte, 0)
            rwx == EntryBit(pte, 1) \/ EntryBit(pte, 2)
                      \/ EntryBit(pte, 3)
        IN  /\ (pte_kind.kind = "Branch") <=> (v /\ ~rwx)
            /\ (pte_kind.kind = "Leaf") <=> (v /\ rwx)
            /\ (pte_kind.kind = "None") <=> ~v

\* ========================================================================
\* Initialisation of the physical memory, pmem.rs
\* ========================================================================

\* The machine's RAM starts at 0x8000_0000.  The addresses of this part are
\* written less 0x4000_0000, so that 0x8000_0000 is 0x4000_0000 here: the
\* bits 0..29, which the page alignment and the buddy arithmetic work on,
\* are the machine's.

\* pmem.rs, get_blocked_ranges: Range::new(0x8000_0000, 0x801F_FFFF)
FIRMWARE_START == 1073741824

FIRMWARE_END == 1075838975

\* A range is <<start, end>>, both inclusive; a range set is a set of
\* ranges that neither overlap nor abut.

\* RangeSet::insert: the range is merged with the ranges it overlaps or abuts
rs_insert(rs, r) ==
    LET touch == {x \in rs : x[1] <= r[2] + 1 /\ r[1] <= x[2] + 1}
        all   == touch \cup {r}
        lo    == CHOOSE v \in {x[1] : x \in all} :
                     \A x \in all : v <= x[1]
        hi    == CHOOSE v \in {x[2] : x \in all} :
                     \A x \in all : x[2] <= v
    IN  (rs \ touch) \cup {<<lo, hi>>}

\* RangeSet::remove_range: a range that contains r is split around it
rs_remove_range(rs, r) ==
    UNION { IF x[2] < r[1] \/ r[2] < x[1]
            THEN {x}
            ELSE (IF x[1] < r[1] THEN {<<x[1], r[1] - 1>>} ELSE {})
                   \cup (IF r[2] < x[2] THEN {<<r[2] + 1, x[2]>>} ELSE {})
          : x \in rs }

\* RangeSet::as_slice: the ranges in ascending order
RECURSIVE rs_as_slice(_)
rs_as_slice(rs) ==
    IF rs = {} THEN << >>
    ELSE LET first == CHOOSE x \in rs : \A y \in rs : x[1] <= y[1]
         IN  <<first>> \o rs_as_slice(rs \ {first})

RECURSIVE rs_insert_all(_, _)
rs_insert_all(rs, seq) ==
    IF seq = << >> THEN rs
    ELSE rs_insert_all(rs_insert(rs, Head(seq)), Tail(seq))

\* get_blocked_ranges: the firmware and the kernel image
get_blocked_ranges(kernel) ==
    << <<FIRMWARE_START, FIRMWARE_END>>, <<kernel[1], kernel[2] - 1>> >>

\* The try_fold of init over the ranges that are left: add_region(start, end)
\* with the inclusive end of the range.
RECURSIVE init_fold(_, _, _)
init_fold(a, slice, acc) ==
    IF slice = << >> THEN [a |-> a, res |-> "Ok", bytes |-> acc]
    ELSE LET start == Head(slice)[1]
             end   == Head(slice)[2]
             step(r) ==
                 IF ~r.ok THEN [a |-> r.a, res |-> r.err, bytes |-> acc]
                 ELSE init_fold(r.a, Tail(slice), acc + r.bytes)
         IN  IF start = NULL \/ end = NULL
             THEN [a |-> a, res |-> "NullRegion", bytes |-> acc]
             ELSE CHOOSE x \in {step(r) : r \in {add_region(a, start, end)}} :
                      TRUE

\* pmem::init.  tree is the sequence of the /memory regions, <<start, end>>
\* with the end exclusive; kernel is <<kernel_start, kernel_end>>.
pmem_init(a, tree, kernel) ==
    LET regs == [i \in 1..Len(tree) |-> <<tree[i][1], tree[i][2] - 1>>]
        m0   == rs_insert_all({}, regs)
        bl   == get_blocked_ranges(kernel)
        m1   == rs_remove_range(rs_remove_range(m0, bl[1]), bl[2])
    IN  init_fold(a, rs_as_slice(m1), 0)

\* The /memory nodes of the device trees:
\*   [0x8000_0000, 0x8020_8000), [0x8000_0000, 0x8021_0000), and the latter
\*   with a second bank [0x8040_0000, 0x8040_4000)
TreeMemories ==
    { << <<1073741824, 1075871744>> >>,
      << <<1073741824, 1075904512>> >>,
      << <<1073741824, 1075904512>>, <<1077936128, 1077952512>> >> }

\* kernel_range(): the image starts after the firmware, at 0x8020_0000, and
\* ends at 0x8020_4000, 0x8020_5000 or 0x8020_4800
KernelRanges ==
    { <<1075838976, 1075855360>>,
      <<1075838976, 1075859456>>,
      <<1075838976, 1075857408>> }

PmemStart == BuddyNew /\ PageIdle /\ OtherIdle

Init(tree, kernel) ==
    /\ status = "running"
    /\ pmem_res = "none"
    /\ nops = 0
    /\ \E r \in {pmem_init(Alloc, tree, kernel)} :
           /\ SetAlloc(r.a)
           /\ pmem_res' = r.res
           /\ last' = [op |-> "init", ok |-> r.res = "Ok", err |-> r.res,
                       bytes |-> r.bytes]
    /\ blocked' = Range(get_blocked_ranges(kernel))
    /\ regions' = {<<tree[i][1], tree[i][2]>> : i \in 1..Len(tree)}
    /\ phase' = "mixed"
    /\ UNCHANGED <<status, outstanding, base_total, nops, pageVars, bootVars, lateVars,
                   entryVars, syncVars>>

\* alloc_order and free_order after init
PmemNext ==
    \/ \E t \in TreeMemories, k \in KernelRanges : Init(t, k)
    \/ pmem_res = "Ok" /\ \E o \in AllocOrders : Allocate(o)
    \/ pmem_res = "Ok" /\ \E i \in 1..MaxOutstanding : Deallocate(i)

SpecPmem == PmemStart /\ [][PmemNext]_vars

\* the block of this order at ptr has a byte in a blocked range
InBlocked(ptr, order) ==
    \E b \in blocked :
        Overlap(ptr, ptr + size_for_order(order), b[1], b[2] + 1)

\* ------------------------------------------------------------------------
\* C14: after pmem::init completes, no block on any buddy free list, and
\* therefore no block ever returned by alloc_order afterwards, overlaps the
\* firmware range [0x8000_0000, 0x801F_FFFF] or the kernel image range
\* [kernel_start, kernel_end).
\* ------------------------------------------------------------------------
C14_BlockedRanges ==
    pmem_res = "Ok" =>
        /\ \A fb \in FreeBlocks : ~InBlocked(fb[1], fb[2])
        /\ \A i \in 1..Len(outstanding) :
              ~InBlocked(outstanding[i].ptr, outstanding[i].order)

\* ========================================================================
\* The ticket mutex of riscv::sync and the pmem calls of several harts
\* ========================================================================

\* Number of harts that call into pmem.
NumHarts == 2

\* Number of lock() calls in one run.
MaxLocks == 4

Harts == 1..NumHarts

\* Mutex::lock, the condition that ends the spin loop:
\* now_serving.load(Acquire) == ticket
lock_spin_done_early(serving, ticket) == serving <= ticket

lock_spin_done(serving, ticket) == serving = ticket

\* a MutexGuard of this hart exists
HasGuard(h) == harts[h].pc \in {"locked", "unlocking"}

\* The machine when the harts start to call into pmem: pmem::init has run.
\*   /memory [0x8000_0000, 0x8021_0000), kernel [0x8020_0000, 0x8020_4000)
\*   /memory [0x8000_0000, 0x8020_6000), kernel [0x8020_0000, 0x8020_1000)
SyncBoots ==
    { << << <<1073741824, 1075904512>> >>, <<1075838976, 1075855360>> >>,
      << << <<1073741824, 1075863552>> >>, <<1075838976, 1075843072>> >> }

\* The calls of the harts: alloc_order(0), alloc_order(1), zalloc_order(0);
\* free_order is called with a block the hart holds.
PmemCalls ==
    { [name |-> "alloc_order", order |-> 0],
      [name |-> "alloc_order", order |-> 1],
      [name |-> "zalloc_order", order |-> 0] }

SyncInit ==
    /\ \E b \in SyncBoots :
           \E r \in {pmem_init(NewAllocator, b[1], b[2])} :
               /\ orders = r.a.orders
               /\ mem = r.a.mem
               /\ stats = r.a.stats
               /\ pmem_res = r.res
               /\ blocked = Range(get_blocked_ranges(b[2]))
               /\ regions = Range(b[1])
    /\ status = "running"
    /\ outstanding = << >>
    /\ phase = "mixed"
    /\ base_total = 0
    /\ last = [op |-> "init"]
    /\ nops = 0
    /\ PageIdle
    /\ EntryIdle
    /\ BootIdle
    /\ LateIdle
    /\ now_serving = 0
    /\ next_ticket = 0
    /\ harts = [h \in Harts |-> [pc |-> "idle", ticket |-> 0,
                                 call |-> [name |-> "none"], ptr |-> NULL]]

\* Mutex::lock, first half: ticket = next_ticket.fetch_add(1, Relaxed)
LockTicket(h, call) ==
    /\ status = "running"
    /\ harts[h].pc = "idle"
    /\ nops < MaxLocks
    /\ harts' = [harts EXCEPT ![h] = [pc |-> "spin", ticket |-> next_ticket,
                                      call |-> call, ptr |-> NULL]]
    /\ next_ticket' = next_ticket + 1
    /\ nops' = nops + 1
    /\ UNCHANGED <<orders, mem, stats, status, outstanding, regions, phase,
                   base_total, last, now_serving, pageVars, bootVars, lateVars, entryVars,
                   pmemVars>>

\* Mutex::lock, second half: the spin loop ends and the guard is made
LockSpin(h) ==
    /\ harts[h].pc = "spin"
    /\ lock_spin_done(now_serving, harts[h].ticket)
    /\ harts' = [harts EXCEPT ![h].pc = "locked"]
    /\ UNCHANGED <<buddyVars, now_serving, next_ticket, pageVars, bootVars, lateVars, entryVars,
                   pmemVars>>

\* alloc_order, zalloc_order: PHYS_MEM.0.lock().allocate(order)
AllocOrder(h) ==
    /\ harts[h].pc = "locked"
    /\ harts[h].call.name \in {"alloc_order", "zalloc_order"}
    /\ \E r \in {allocate(Alloc, harts[h].call.order)} :
           /\ SetAlloc(r.a)
           /\ last' = [op |-> "allocate", hart |-> h,
                       order |-> harts[h].call.order, ok |-> r.ok,
                       err |-> r.err, ptr |-> r.ptr]
           /\ outstanding' =
                 IF r.ok
                 THEN Append(outstanding,
                             [ptr |-> r.ptr, order |-> harts[h].call.order,
                              hart |-> h])
                 ELSE outstanding
           /\ harts' = [harts EXCEPT ![h].pc = "unlocking",
                                     ![h].ptr = IF r.ok THEN r.ptr ELSE NULL]
    /\ UNCHANGED <<status, regions, phase, base_total, nops, now_serving,
                   next_ticket, pageVars, bootVars, lateVars, entryVars, pmemVars>>

\* free_order: PHYS_MEM.0.lock().deallocate(ptr, order)
FreeOrder(h) ==
    /\ harts[h].pc = "locked"
    /\ harts[h].call.name = "free_order"
    /\ \E i \in 1..Len(outstanding) :
           /\ outstanding[i].ptr = harts[h].call.ptr
           /\ outstanding[i].hart = h
           /\ outstanding' = RemoveAt(outstanding, i)
    /\ \E r \in {deallocate(Alloc, harts[h].call.ptr, harts[h].call.order)} :
           /\ SetAlloc(r.a)
           /\ last' = [op |-> "deallocate", hart |-> h,
                       ptr |-> harts[h].call.ptr,
                       order |-> harts[h].call.order, ok |-> r.res = "ok",
                       err |-> r.res]
           /\ status' = IF r.res \in {"panic", "hang"} THEN r.res
                        ELSE "running"
    /\ harts' = [harts EXCEPT ![h].pc = "unlocking"]
    /\ UNCHANGED <<regions, phase, base_total, nops, now_serving,
                   next_ticket, pageVars, bootVars, lateVars, entryVars, pmemVars>>

\* MutexGuard::drop with a store of the guard's own ticket
drop_store_same(ticket) == ticket

\* MutexGuard::drop, the value stored to now_serving
drop_store(ticket) == ticket + 1

\* MutexGuard::drop at the end of the statement:
\* now_serving.store(ticket + 1, Release)
GuardDrop(h) ==
    /\ harts[h].pc = "unlocking"
    /\ now_serving' = drop_store(harts[h].ticket)
    /\ harts' = [harts EXCEPT ![h].pc =
                    IF harts[h].call.name = "zalloc_order"
                       /\ harts[h].ptr # NULL
                    THEN "fill" ELSE "idle"]
    /\ UNCHANGED <<buddyVars, next_ticket, pageVars, bootVars, lateVars, entryVars, pmemVars>>

\* zalloc_order after alloc_order returned: slice.fill(0) over the block
Fill(h) ==
    /\ harts[h].pc = "fill"
    /\ LET pages == {harts[h].ptr + k * PAGE_SIZE :
                        k \in 0..(Pow2(harts[h].call.order) - 1)}
       IN  mem' = [q \in DOMAIN mem \ pages |-> mem[q]]
    /\ harts' = [harts EXCEPT ![h].pc = "idle"]
    /\ UNCHANGED <<orders, stats, status, outstanding, regions, phase,
                   base_total, last, nops, now_serving, next_ticket,
                   pageVars, bootVars, lateVars, entryVars, pmemVars>>

SyncNext ==
    \E h \in Harts :
        \/ \E call \in PmemCalls : LockTicket(h, call)
        \/ \E i \in 1..Len(outstanding) :
              /\ outstanding[i].hart = h
              /\ LockTicket(h, [name |-> "free_order",
                                ptr |-> outstanding[i].ptr,
                                order |-> outstanding[i].order])
        \/ LockSpin(h)
        \/ AllocOrder(h)
        \/ FreeOrder(h)
        \/ GuardDrop(h)
        \/ Fill(h)

SpecSync == SyncInit /\ [][SyncNext]_vars

\* ------------------------------------------------------------------------
\* C15: mutual exclusion of the ticket Mutex.  Under any interleaving of
\* lock() calls and guard drops by any number of harts, at most one
\* MutexGuard for a given Mutex exists at any time.
\* ------------------------------------------------------------------------
C15_MutualExclusion ==
    \A h1, h2 \in Harts : (HasGuard(h1) /\ HasGuard(h2)) => h1 = h2

\* one hart holds the guard while another spins with a later ticket
C15_Witness ==
    \E h1, h2 \in Harts :
        /\ HasGuard(h1)
        /\ harts[h2].pc = "spin"
        /\ harts[h2].ticket > harts[h1].ticket
        /\ now_serving > 0

\* ------------------------------------------------------------------------
\* C16: every buddy operation reachable through the pmem facade runs
\* entirely while PHYS_MEM's mutex is held, so any concurrent execution of
\* these operations by several harts is equivalent to some sequential order
\* and two harts never receive overlapping blocks.
\* ------------------------------------------------------------------------
C16_Serialised ==
    [][/\ <<orders, stats>>' # <<orders, stats>> =>
             \E h \in Harts : harts[h].pc = "locked" /\ HasGuard(h)'
       /\ \A i, j \in 1..Len(outstanding') :
             (outstanding'[i].hart # outstanding'[j].hart) =>
                 ~BlockOverlap(outstanding'[i].ptr, outstanding'[i].order,
                               outstanding'[j].ptr, outstanding'[j].order)
      ]_vars

\* every hart goes on with the call it is in: it leaves the spin loop when
\* it sees its ticket, runs the buddy operation and drops its guard
FairSpecSync ==
    /\ SpecSync
    /\ \A h \in Harts :
           /\ WF_vars(LockSpin(h))
           /\ WF_vars(AllocOrder(h) \/ FreeOrder(h))
           /\ WF_vars(GuardDrop(h))

\* no hart spins with an earlier ticket than the one of a guard
InTicketOrder ==
    \A h, g \in Harts :
        HasGuard(h) /\ harts[g].pc = "spin" =>
            harts[h].ticket < harts[g].ticket

\* ------------------------------------------------------------------------
\* C34: the ticket Mutex is first come, first served and free of
\* starvation: the harts enter the critical section in the order of their
\* tickets, and when every holder drops its guard every hart that called
\* lock() obtains the guard.
\* ------------------------------------------------------------------------
C34_FairMutex ==
    /\ []InTicketOrder
    /\ \A h \in Harts : harts[h].pc = "spin" ~> HasGuard(h)

\* a hart has the guard it had to wait for
C34_Witness ==
    \E h \in Harts :
        /\ harts[h].pc = "locked"
        /\ harts[h].ticket > 0
        /\ next_ticket > harts[h].ticket + 1

\* ------------------------------------------------------------------------
\* Boot: the physical-memory offset, satp and the secondary harts
\* (memmap.rs, boot.rs, boot/harts.rs, riscv/src/csr/satp.rs)
\* ------------------------------------------------------------------------

\* memmap.rs: KERNEL_PHYS_MEM_BASE = HIGHER_HALF_START + 0x0A00_0000_0000,
\* that is 0x4A00_0000_0000, written here in units of 16 MiB (2^24).
KERNEL_PHYS_MEM_BASE == 4849664

\* p2v of a hart that has not called phys2virt
NoRead == [paging |-> FALSE, offset |-> 0]

\* The hart ids a device tree of the model may name.
CpuIds == 0 .. NumHarts

\* satp.rs Satp::as_bits: the PPN of the root table, the ASID and the mode
\* number; the three bit fields of the CSR are kept as three fields.
as_bits(s) ==
    [ppn  |-> s.root_table \div PAGE_SIZE,
     asid |-> s.asid,
     mode |-> CASE s.mode = "Bare" -> 0
                [] s.mode = "Sv39" -> 8
                [] s.mode = "Sv48" -> 9]

\* the reset value of satp: translation off
BareBits == as_bits([mode |-> "Bare", asid |-> 0, root_table |-> 0])

\* memmap.rs set_phymem_offset: a Relaxed store.  The storing hart sees it
\* at once; it reaches the other harts when it leaves the store buffer.
set_phymem_offset_lost(cell, offset) == cell

set_phymem_offset(cell, offset) == [cell EXCEPT !.buf = Append(@, offset)]

\* The store buffer of the boot hart drains: by itself at any time, and
\* before a Release store of the hart becomes visible (sync.rs drop).
drain(cell) ==
    [mem |-> IF cell.buf = << >> THEN cell.mem ELSE cell.buf[Len(cell.buf)],
     buf |-> << >>]

\* memmap.rs phys2virt: the Relaxed load of PHYSICAL_MEMORY_OFFSET by the
\* hart that stored it (own) or by another hart.
load_phymem_offset(cell, own) ==
    IF own /\ cell.buf # << >> THEN cell.buf[Len(cell.buf)] ELSE cell.mem

\* harts.rs boot_all_harts: the harts of the device tree other than this
\* one, in the order of their nodes.
boot_cores_all(cpus, hart_id) == cpus

boot_cores(cpus, hart_id) == SelectSeq(cpus, LAMBDA id : id # hart_id)

\* harts.rs boot_all_harts: the satp value staged for the secondary harts.
hart_satp == as_bits([asid |-> 0, mode |-> "Sv39", root_table |-> 0])

\* boot.rs _before_main: the satp value the boot hart installs.
boot_satp(table) == as_bits([asid |-> 0, mode |-> "Sv39", root_table |-> table])

\* nothing was written to the stack of a hart
NotStaged == [written |-> FALSE, args |-> FALSE, satp |-> BareBits, vstack |-> FALSE]

\* The lists of /cpus/cpu@ nodes, each node with its own reg.
CpuLists ==
    { s \in UNION { [1 .. n -> CpuIds] : n \in 1 .. NumHarts + 1 } :
        \A i, j \in DOMAIN s : i # j => s[i] # s[j] }

\* What the boot hart is entered with: the cpu nodes of the device tree,
\* its own id, the number of kernel stacks the free physical memory has
\* room for, and the address of the kernel's root page table (0x8020_5000
\* less 0x4000_0000).
BootInputs ==
    { [cpus |-> c, hart_id |-> c[i], stacks |-> n, table |-> 1075859456] :
        <<c, i, n>> \in
            { t \in CpuLists \X (1 .. NumHarts + 1) \X (0 .. NumHarts) :
                t[2] \in DOMAIN t[1] } }

BootInit ==
    /\ BuddyNew
    /\ PageIdle
    /\ EntryIdle
    /\ PmemIdle
    /\ SyncIdle
    /\ LateIdle
    /\ boot_in \in BootInputs
    /\ phymem_offset = [mem |-> 0, buf |-> << >>]
    /\ satp = [h \in CpuIds |-> BareBits]
    /\ bpc = "publish"
    /\ cores = << >>
    /\ hsm = << >>
    /\ staged = [h \in CpuIds |-> NotStaged]
    /\ spc = [h \in CpuIds |-> "stopped"]
    /\ p2v = [h \in CpuIds |-> NoRead]

bootRest ==
    <<buddyVars, pageVars, entryVars, pmemVars, syncVars, lateVars, boot_in>>

\* Step 10 of before_main: publish the physical-memory offset.
Publish ==
    /\ bpc = "publish"
    /\ phymem_offset' = set_phymem_offset(phymem_offset, KERNEL_PHYS_MEM_BASE)
    /\ bpc' = "paging"
    /\ UNCHANGED <<bootRest, satp, cores, hsm, staged, spc, p2v>>

\* boot.rs _before_main: satp::write and the sfence after it.
EnablePaging ==
    /\ bpc = "paging"
    /\ satp' = [satp EXCEPT ![boot_in.hart_id] = boot_satp(boot_in.table)]
    /\ bpc' = "trampoline"
    /\ UNCHANGED <<bootRest, phymem_offset, cores, hsm, staged, spc, p2v>>

\* The boot hart's store buffer drains.
Drain ==
    /\ phymem_offset.buf # << >>
    /\ phymem_offset' = drain(phymem_offset)
    /\ UNCHANGED <<bootRest, satp, bpc, cores, hsm, staged, spc, p2v>>

\* A hart that runs kernel code calls phys2virt.
Phys2Virt(h) ==
    /\ \/ h = boot_in.hart_id /\ bpc # "panic"
       \/ h # boot_in.hart_id /\ spc[h] = "rust"
    /\ p2v' = [p2v EXCEPT ![h] =
                  [paging |-> satp[h].mode # 0,
                   offset |-> load_phymem_offset(phymem_offset,
                                                 h = boot_in.hart_id)]]
    /\ UNCHANGED <<bootRest, phymem_offset, satp, bpc, cores, hsm, staged, spc>>

\* boot.rs rust_trampoline up to the loop over the cpu nodes.
Trampoline ==
    /\ bpc = "trampoline"
    /\ cores' = boot_cores(boot_in.cpus, boot_in.hart_id)
    /\ bpc' = "harts"
    /\ UNCHANGED <<bootRest, phymem_offset, satp, hsm, staged, spc, p2v>>

\* harts.rs boot_all_harts, the loop body up to the start call:
\* alloc_kernel_stack unwraps map_alloc, which fails when pmem::alloc_order
\* has no page left; every pmem call drops a mutex guard.
Stage ==
    /\ bpc = "harts"
    /\ cores # << >>
    /\ phymem_offset' = drain(phymem_offset)
    /\ IF Len(hsm) >= boot_in.stacks
       THEN /\ bpc' = "panic"
            /\ UNCHANGED staged
       ELSE /\ bpc' = "start"
            /\ staged' = [staged EXCEPT ![Head(cores)] =
                             [written |-> TRUE, args |-> TRUE,
                              satp |-> hart_satp, vstack |-> TRUE]]
    /\ UNCHANGED <<bootRest, satp, cores, hsm, spc, p2v>>

\* harts.rs boot_all_harts: sbi::hsm::start and the match on its result.
Start ==
    /\ bpc = "start"
    /\ \E res \in {"Ok", "Err"} :
           /\ hsm' = Append(hsm, [hart |-> Head(cores), res |-> res])
           /\ spc' = IF res = "Ok" /\ spc[Head(cores)] = "stopped"
                     THEN [spc EXCEPT ![Head(cores)] = "entry"]
                     ELSE spc
    /\ cores' = Tail(cores)
    /\ bpc' = "harts"
    /\ UNCHANGED <<bootRest, phymem_offset, satp, staged, p2v>>

\* boot.rs rust_trampoline after the loop: crate::main.
Main ==
    /\ bpc = "harts"
    /\ cores = << >>
    /\ bpc' = "main"
    /\ UNCHANGED <<bootRest, phymem_offset, satp, cores, hsm, staged, spc, p2v>>

\* harts.rs hart_entry: load the staged satp and stack, csrw satp,
\* sfence.vma, jump to rust_hart_entry.  The jump is fetched through the
\* table satp names; only the kernel's table maps the kernel.
HartEntry(h) ==
    /\ spc[h] = "entry"
    /\ satp' = [satp EXCEPT ![h] = staged[h].satp]
    /\ spc' = [spc EXCEPT ![h] =
                  IF staged[h].satp = boot_satp(boot_in.table)
                  THEN "rust" ELSE "fault"]
    /\ UNCHANGED <<bootRest, phymem_offset, bpc, cores, hsm, staged, p2v>>

BootHartNext ==
    \/ Publish
    \/ EnablePaging
    \/ Trampoline
    \/ Stage
    \/ Start
    \/ Main

BootNext ==
    \/ BootHartNext
    \/ Drain
    \/ \E h \in CpuIds : Phys2Virt(h)
    \/ \E h \in CpuIds : HartEntry(h)

SpecBoot == BootInit /\ [][BootNext]_vars

\* The boot hart keeps executing.
FairSpecBoot == SpecBoot /\ WF_vars(BootHartNext)

Attempts == [i \in DOMAIN hsm |-> hsm[i].hart]

\* the cpu nodes whose reg is not the boot hart's id
OtherCpus == SelectSeq(boot_in.cpus, LAMBDA id : id # boot_in.hart_id)

IsPrefix(s, t) == Len(s) <= Len(t) /\ \A i \in DOMAIN s : s[i] = t[i]

\* the boot hart has not stopped, and the start calls so far are those of
\* the first cpu nodes, one call each
StartsInOrder == bpc # "panic" /\ IsPrefix(Attempts, OtherCpus)

\* the boot hart is in main after one start call for every other cpu node
AllStarted == bpc = "main" /\ Attempts = OtherCpus

\* the free physical memory has room for the stacks of all other harts
EnoughStacks == boot_in.stacks >= Len(OtherCpus)

C19_StagedSatp ==
    /\ \A i \in DOMAIN hsm : staged[hsm[i].hart].written
    /\ \A h \in CpuIds :
           /\ staged[h].written => staged[h].satp = satp[boot_in.hart_id]
           /\ h # boot_in.hart_id /\ satp[h] # BareBits =>
                  satp[h] = satp[boot_in.hart_id]

\* ------------------------------------------------------------------------
\* Drop of a page table
\* ------------------------------------------------------------------------

\* The regions the allocator of a page table is made of: the region of
\* SpecPage, and two regions of 16 MiB and one page, in which a merge of
\* freed pages reaches the highest order.
DropRegions ==
    { PageRegion,
      <<16777216, 33558528>>,    \* [0x100_0000, 0x200_1000)
      <<50331648, 67112960>> }   \* [0x300_0000, 0x400_1000)

\* PageTable::new on an allocator that holds one of the regions
DropInit ==
    /\ mode \in Modes
    /\ \E reg \in DropRegions :
           \E t \in {NewPageTable(add_region(NewAllocator, reg[1], reg[2]).a)} :
               /\ orders = t.a.orders
               /\ mem = t.a.mem
               /\ stats = t.a.stats
               /\ root = t.ptr
               /\ regions = {reg}
    /\ status = "running"
    /\ outstanding = << >>
    /\ phase = "mixed"
    /\ base_total = 0
    /\ last = [op |-> "new"]
    /\ nops = 0
    /\ subtables = << >>
    /\ mapped = {}
    /\ plast = [op |-> "new"]
    /\ OtherIdle

SpecDrop == DropInit /\ [][PageNext]_vars

\* the free blocks that hold the page at p
FreeBlocksOf(p) ==
    {b \in FreeBlocks : b[1] <= p /\ p < b[1] + size_for_order(b[2])}

\* C20: after the drop of a page table, every page that map allocated for
\* an intermediate table is free again and was freed by one call: the
\* pages are distinct, each lies in exactly one free block, no call failed,
\* and the root table is the only page the allocator still counts as
\* allocated and lies in no free block.
C20_DropReturnsSubtables ==
    plast.op = "drop" =>
        /\ status = "dropped"
        /\ subtables = << >>
        /\ \A i, j \in DOMAIN plast.subs :
               i # j => plast.subs[i] # plast.subs[j]
        /\ \A p \in Range(plast.subs) : Cardinality(FreeBlocksOf(p)) = 1
        /\ FreeBlocksOf(root) = {}
        /\ stats.allocated = PAGE_SIZE

\* the allocator, the page table and the early parts are not in use
EarlyIdle ==
    BuddyNew /\ PageIdle /\ EntryIdle /\ PmemIdle /\ SyncIdle /\ BootIdle

\* for each of the late parts, all other parts are not in use
PhysAlone == EarlyIdle /\ CtxIdle /\ TrapIdle /\ FdtIdle /\ LogIdle /\ RwIdle /\ RootIdle /\ EnterIdle /\ FrameIdle /\ LookupIdle /\ VaddrIdle

CtxAlone == EarlyIdle /\ PhysIdle /\ TrapIdle /\ FdtIdle /\ LogIdle /\ RwIdle /\ RootIdle /\ EnterIdle /\ FrameIdle /\ LookupIdle /\ VaddrIdle

TrapAlone == EarlyIdle /\ PhysIdle /\ CtxIdle /\ FdtIdle /\ LogIdle /\ RwIdle /\ RootIdle /\ EnterIdle /\ FrameIdle /\ LookupIdle /\ VaddrIdle

FdtAlone == EarlyIdle /\ PhysIdle /\ CtxIdle /\ TrapIdle /\ LogIdle /\ RwIdle /\ RootIdle /\ EnterIdle /\ FrameIdle /\ LookupIdle /\ VaddrIdle

LogAlone == EarlyIdle /\ PhysIdle /\ CtxIdle /\ TrapIdle /\ FdtIdle /\ RwIdle /\ RootIdle /\ EnterIdle /\ FrameIdle /\ LookupIdle /\ VaddrIdle

RwAlone == EarlyIdle /\ PhysIdle /\ CtxIdle /\ TrapIdle /\ FdtIdle /\ LogIdle /\ RootIdle /\ EnterIdle /\ FrameIdle /\ LookupIdle /\ VaddrIdle

RootAlone == EarlyIdle /\ PhysIdle /\ CtxIdle /\ TrapIdle /\ FdtIdle /\ LogIdle /\ RwIdle /\ EnterIdle /\ FrameIdle /\ LookupIdle /\ VaddrIdle

EnterAlone == EarlyIdle /\ PhysIdle /\ CtxIdle /\ TrapIdle /\ FdtIdle /\ LogIdle /\ RwIdle /\ RootIdle /\ FrameIdle /\ LookupIdle /\ VaddrIdle

FrameAlone == EarlyIdle /\ PhysIdle /\ CtxIdle /\ TrapIdle /\ FdtIdle /\ LogIdle /\ RwIdle /\ RootIdle /\ EnterIdle /\ LookupIdle /\ VaddrIdle

LookupAlone == EarlyIdle /\ PhysIdle /\ CtxIdle /\ TrapIdle /\ FdtIdle /\ LogIdle /\ RwIdle /\ RootIdle /\ EnterIdle /\ FrameIdle /\ VaddrIdle

VaddrAlone == EarlyIdle /\ PhysIdle /\ CtxIdle /\ TrapIdle /\ FdtIdle /\ LogIdle /\ RwIdle /\ RootIdle /\ EnterIdle /\ FrameIdle /\ LookupIdle

\* ------------------------------------------------------------------------
\* The mapping of the physical memory (boot.rs _before_main)
\* Addresses of this part are in units of 1 MiB.
\* ------------------------------------------------------------------------

\* boot.rs: KERNEL_PHYS_MEM_BASE = 0x001F_FF00_0000, in MiB
PHYS_MEM_BASE_MIB == 131056

\* unit.rs: 2 * unit::MIB, the size of a megapage, in MiB
MEGAPAGE_MIB == 2

\* Largest length of a /memory region of the model, in MiB.
MaxRegionMiB == 6

\* The /memory nodes of the model: one or two regions [start, end); the
\* first starts at 0x8000_0000, 1 MiB or 2 MiB above it.
MemoryNodes ==
    LET first == { <<s, s + n>> : s \in 2048 .. 2050, n \in 2 .. MaxRegionMiB }
        second == { <<4096, 4096 + n>> : n \in {2, 4} }
    IN  { <<r>> : r \in first } \cup { <<r, q>> : r \in first, q \in second }

\* sv39.rs Table::map for a megapage, as far as the loop depends on it: the
\* alignment check, then the new leaf.
map_megapage(maps, paddr, vaddr) ==
    IF paddr % MEGAPAGE_MIB # 0 \/ vaddr % MEGAPAGE_MIB # 0
    THEN [maps |-> maps, res |-> "UnalignedAddress"]
    ELSE IF \E m \in maps : m.vaddr = vaddr
    THEN [maps |-> maps, res |-> "AlreadyMapped"]
    ELSE [maps |-> maps \cup {[vaddr |-> vaddr, paddr |-> paddr]},
          res |-> "Ok"]

PhysInit ==
    /\ PhysAlone
    /\ memory \in MemoryNodes
    /\ physmap = [pc |-> "start"]

\* boot.rs: let phys_mem = fdt.memory().regions().next().unwrap()
FirstRegion ==
    /\ physmap.pc = "start"
    /\ physmap' = [pc |-> "loop", page |-> memory[1][1], last |-> memory[1][2],
                   maps |-> {}]
    /\ UNCHANGED <<physRest, memory>>

\* boot.rs: one turn of the loop over (start..end).step_by(2 * MIB), the
\* unwrap of the result of map included.
MapPhysPage ==
    /\ physmap.pc = "loop"
    /\ physmap.page < physmap.last
    /\ \E r \in {map_megapage(physmap.maps, physmap.page,
                              physmap.page + PHYS_MEM_BASE_MIB)} :
           physmap' = IF r.res = "Ok"
                      THEN [physmap EXCEPT !.maps = r.maps,
                                           !.page = @ + MEGAPAGE_MIB]
                      ELSE [physmap EXCEPT !.pc = "panic"]
    /\ UNCHANGED <<physRest, memory>>

\* boot.rs: the loop is over, the kernel sections are mapped next.
PhysMapped ==
    /\ physmap.pc = "loop"
    /\ physmap.page >= physmap.last
    /\ physmap' = [physmap EXCEPT !.pc = "mapped"]
    /\ UNCHANGED <<physRest, memory>>

PhysNext == FirstRegion \/ MapPhysPage \/ PhysMapped

SpecPhys == PhysInit /\ [][PhysNext]_vars

\* the physical address, in MiB, that the mappings give to vaddr; 0 if none
PhysOf(maps, vaddr) ==
    IF \E m \in maps : m.vaddr <= vaddr /\ vaddr < m.vaddr + MEGAPAGE_MIB
    THEN LET m == CHOOSE m \in maps :
                      m.vaddr <= vaddr /\ vaddr < m.vaddr + MEGAPAGE_MIB
         IN  m.paddr + (vaddr - m.vaddr)
    ELSE 0

\* C21: the loop does not stop the kernel, and when it is over every
\* physical address p of every /memory region is mapped at
\* KERNEL_PHYS_MEM_BASE + p.
C21_PhysMemMapped ==
    /\ physmap.pc # "panic"
    /\ physmap.pc = "mapped" =>
           \A i \in DOMAIN memory :
               \A p \in memory[i][1] .. (memory[i][2] - 1) :
                   PhysOf(physmap.maps, p + PHYS_MEM_BASE_MIB) = p

\* ------------------------------------------------------------------------
\* The hart context (hart.rs)
\* ------------------------------------------------------------------------

\* a value of sscratch that is neither zero nor the address of a context
Garbage == 8

\* inited of a hart on which init_hart_context has not run
NotInited == -1

\* The ids init_hart_context is called with.
HartIds == 0 .. NumHarts

\* Box::new: the address of the next context
NextBox == PAGE_SIZE * (1 + Cardinality(DOMAIN contexts))

\* hart.rs try_current: None when sscratch is zero, otherwise a reference
\* made from the value; wild marks a reference to memory that holds no
\* context.
try_current(scratch, heap) ==
    IF scratch = 0 THEN [some |-> FALSE, panic |-> FALSE]
    ELSE IF scratch \in DOMAIN heap
    THEN [some |-> TRUE, wild |-> FALSE, ctx |-> heap[scratch]]
    ELSE [some |-> TRUE, wild |-> TRUE]

\* hart.rs current: the expect of try_current
current(scratch, heap) ==
    LET r == try_current(scratch, heap)
    IN  IF r.some THEN r ELSE [r EXCEPT !.panic = TRUE]

\* The harts enter the kernel; the kernel does not write sscratch before
\* init_hart_context, so the CSR holds what the firmware left in it.
CtxInit ==
    /\ CtxAlone
    /\ sscratch \in [Harts -> {0, Garbage}]
    /\ contexts = << >>
    /\ inited = [h \in Harts |-> NotInited]
    /\ hcall = [op |-> "none"]

TryCurrent(h) ==
    /\ hcall' = [op |-> "try_current", hart |-> h,
                 res |-> try_current(sscratch[h], contexts)]
    /\ UNCHANGED <<ctxRest, sscratch, contexts, inited>>

Current(h) ==
    /\ hcall' = [op |-> "current", hart |-> h,
                 res |-> current(sscratch[h], contexts)]
    /\ UNCHANGED <<ctxRest, sscratch, contexts, inited>>

\* hart.rs init_hart_context: box the context, write its address to
\* sscratch.
InitHartContext(h, hart_id, is_bsp) ==
    /\ inited[h] = NotInited
    /\ contexts' = (NextBox :> [id |-> hart_id, is_bsp |-> is_bsp]) @@ contexts
    /\ sscratch' = [sscratch EXCEPT ![h] = NextBox]
    /\ inited' = [inited EXCEPT ![h] = hart_id]
    /\ hcall' = [op |-> "init_hart_context", hart |-> h, res |-> "Ok"]
    /\ UNCHANGED ctxRest

\* the global logger's lock when a hart traps or panics: free, or held by
\* the code of this hart that was interrupted or that panicked
\* (install_handler sets sstatus.SIE and the kernel logs after it; log()
\* panics with the lock held when the logger fails)
LogLock == {"free", "self"}

\* panic.rs panic_handler, first branch: interrupt the other harts when
\* this hart has a context, print through sbi::legacy::put_char, shut down
bsp_panic(cur) ==
    (IF cur.some THEN <<"send_ipi">> ELSE << >>) \o
        <<"put_char", "fail_shutdown">>

\* panic.rs panic_handler, second branch: log::error! takes the lock of
\* the global logger, then sbi::hsm::stop, then the wfi loop
ap_panic(lock, stopped) ==
    IF lock = "self"
    THEN <<"lock">>
    ELSE <<"log_error", "hsm_stop">> \o
             (IF stopped THEN << >> ELSE <<"wfi">>)

\* panic.rs panic_handler: the set of the runs it can take.  is_bsp read
\* through a reference to no context is any value.
panic_handler(scratch, heap, lock, stopped) ==
    LET cur == try_current(scratch, heap)
    IN  IF ~cur.some THEN {bsp_panic(cur)}
        ELSE IF cur.wild THEN {bsp_panic(cur), ap_panic(lock, stopped)}
        ELSE IF cur.ctx.is_bsp THEN {bsp_panic(cur)}
        ELSE {ap_panic(lock, stopped)}

Panic(h) ==
    /\ \E lock \in LogLock, stopped \in BOOLEAN :
           \E run \in panic_handler(sscratch[h], contexts, lock, stopped) :
               hcall' = [op |-> "panic", hart |-> h, res |-> run]
    /\ UNCHANGED <<ctxRest, sscratch, contexts, inited>>

CtxNext ==
    \/ \E h \in Harts : TryCurrent(h)
    \/ \E h \in Harts : Current(h)
    \/ \E h \in Harts, id \in HartIds, b \in BOOLEAN : InitHartContext(h, id, b)
    \/ \E h \in Harts : Panic(h)

SpecCtx == CtxInit /\ [][CtxNext]_vars

BootOrNoContext(h) ==
    \/ inited[h] = NotInited
    \/ contexts[sscratch[h]].is_bsp

\* C24: a panic on the boot hart or on a hart without context writes the
\* text to the SBI console and then shuts the machine down; a panic on a
\* secondary hart logs, issues SBI hart-stop, spins if that fails, and
\* never shuts the machine down.
C24_Panic ==
    hcall.op = "panic" =>
        LET run == hcall.res
            n == Len(run)
        IN  IF BootOrNoContext(hcall.hart)
            THEN /\ n >= 2
                 /\ run[n - 1] = "put_char"
                 /\ run[n] = "fail_shutdown"
            ELSE /\ n >= 2
                 /\ run[1] = "log_error"
                 /\ run[2] = "hsm_stop"
                 /\ \A i \in 3 .. n : run[i] = "wfi"

\* ------------------------------------------------------------------------
\* kernel/src/trap.rs trap_handler and riscv/src/trap.rs Trap::from_cause
\* ------------------------------------------------------------------------

\* usize::BITS of the modelled machine; the tables need five bits, the
\* interrupt bit is the highest one
USIZE_BITS == 6

INTERRUPT_BIT == 2 ^ (USIZE_BITS - 1)

NON_INTERRUPT_TABLE ==
    <<"InstructionAddressMisaligned", "InstructionAccessFault",
      "IllegalInstruction", "Breakpoint", "LoadAddressMisaligned",
      "LoadAccessFault", "StoreAddressMisaligned", "StoreAccessFault",
      "UserModeEnvironmentCall", "SupervisorModeEnvironmentCall",
      "Reserved", "MachineModeEnvironmentCall", "InstructionPageFault",
      "LoadPageFault", "Reserved", "StorePageFault">>

INTERRUPT_TABLE ==
    <<"UserSoftwareInterrupt", "SupervisorSoftwareInterrupt", "Reserved",
      "MachineSoftwareInterrupt", "UserTimerInterrupt",
      "SupervisorTimerInterrupt", "Reserved", "MachineTimerInterrupt",
      "UserExternalInterrupt", "SupervisorExternalInterrupt", "Reserved",
      "MachineExternalInterrupt">>

\* slice::get(i).copied(); the tables are indexed from 0
table_get(table, i) ==
    IF i + 1 \in DOMAIN table
    THEN [some |-> TRUE, trap |-> table[i + 1]]
    ELSE [some |-> FALSE]

from_cause(cause) ==
    IF (cause \div INTERRUPT_BIT) % 2 # 0
    THEN table_get(INTERRUPT_TABLE, cause - INTERRUPT_BIT)
    ELSE table_get(NON_INTERRUPT_TABLE, cause)

\* log::debug! takes the ticket lock of the global logger, log/src/lib.rs
\* log(): a hart that was interrupted while it held the lock waits for
\* itself.
log_debug(lock, done) ==
    IF lock = "self" THEN [kind |-> "spin"] ELSE done

trap_handler(scause, stval, sepc, lock) ==
    LET cause == from_cause(scause)
        fatal(msg, what) == [kind |-> "panic", msg |-> msg, cause |-> what,
                             pc |-> sepc, tval |-> stval]
    IN  IF ~cause.some
        THEN fatal("Invalid trap cause", <<scause>>)
        ELSE CASE cause.trap = "SupervisorExternalInterrupt" ->
                      [kind |-> "ret", sepc |-> sepc]
               [] cause.trap = "SupervisorTimerInterrupt" ->
                      log_debug(lock, [kind |-> "ret", sepc |-> sepc])
               [] OTHER -> fatal("Unhandled trap", <<cause.trap>>)

TrapInputs ==
    [scause : 0 .. 2 ^ USIZE_BITS - 1, stval : {0, 8}, sepc : {4, 12},
     lock : LogLock]

TrapInit ==
    /\ TrapAlone
    /\ trap_in \in TrapInputs
    /\ trap_res = [kind |-> "none"]

TrapHandler ==
    /\ trap_res.kind = "none"
    /\ trap_res' = trap_handler(trap_in.scause, trap_in.stval, trap_in.sepc,
                                trap_in.lock)
    /\ UNCHANGED <<trapRest, trap_in>>

TrapNext == TrapHandler

SpecTrap == TrapInit /\ [][TrapNext]_vars

\* C23: trap_handler returns sepc unchanged for the supervisor external
\* interrupt (interrupt 9) and the supervisor timer interrupt (interrupt
\* 5), and for every other scause it panics with the cause, the pc and
\* tval.
C23_TrapHandler ==
    trap_res.kind # "none" =>
        IF /\ trap_in.scause >= INTERRUPT_BIT
           /\ trap_in.scause - INTERRUPT_BIT \in {5, 9}
        THEN trap_res = [kind |-> "ret", sepc |-> trap_in.sepc]
        ELSE /\ trap_res.kind = "panic"
             /\ trap_res.pc = trap_in.sepc
             /\ trap_res.tval = trap_in.stval

\* ------------------------------------------------------------------------
\* devicetree/src/lib.rs: from_ptr, u32_at, tokens, string_at
\* ------------------------------------------------------------------------

\* 0xD00DFEED, as its two big-endian half words
MAGIC == <<53261, 65261>>

\* from_ptr: check the magic number, take totalsize bytes as the buffer
from_ptr(words) ==
    IF words[1] # MAGIC
    THEN [some |-> FALSE]
    ELSE [some |-> TRUE, len |-> words[2], words |-> words]

\* u32_at: &self.buf[real_idx..real_idx + 4] panics past the buffer
u32_at(buf, idx) ==
    IF idx * 4 + 4 > buf.len
    THEN [ok |-> FALSE]
    ELSE [ok |-> TRUE, val |-> buf.words[idx + 1]]

struct_offset(buf) == u32_at(buf, 2)

strings_offset(buf) == u32_at(buf, 3)

struct_size(buf) == u32_at(buf, 9)

\* tokens: &self.buf[start..start + size] panics past the buffer
tokens(buf) ==
    LET start == struct_offset(buf)
        size == struct_size(buf)
    IN  IF ~start.ok \/ ~size.ok THEN [kind |-> "panic", at |-> "u32_at"]
        ELSE IF start.val + size.val > buf.len
        THEN [kind |-> "panic", at |-> "tokens"]
        ELSE [kind |-> "tokens", from |-> start.val,
              to |-> start.val + size.val]

\* memchr(0x00, bytes) over the bytes from..len of the buffer
memchr0(nuls, from, len) ==
    LET found == {n \in nuls : from <= n /\ n < len}
    IN  IF found = {} THEN [some |-> FALSE]
        ELSE [some |-> TRUE,
              pos |-> CHOOSE n \in found : \A o \in found : n <= o]

\* string_at: self.buf.get(start + offset..)?, then next_str
string_at(buf, nuls, offset) ==
    LET start == strings_offset(buf)
    IN  IF ~start.ok THEN [kind |-> "panic", at |-> "u32_at"]
        ELSE IF start.val + offset > buf.len THEN [kind |-> "None"]
        ELSE LET nul == memchr0(nuls, start.val + offset, buf.len)
             IN  IF ~nul.some THEN [kind |-> "None"]
                 ELSE [kind |-> "str", from |-> start.val + offset,
                       to |-> nul.pos]

\* header words 0 .. 9 of a blob: magic, totalsize, off_dt_struct,
\* off_dt_strings, off_mem_rsvmap, version, last_comp_version,
\* boot_cpuid_phys, size_dt_strings, size_dt_struct
Header(magic, totalsize, off_struct, off_strings, size_struct) ==
    <<magic, totalsize, off_struct, off_strings, 40, 17, 16, 0, 8,
      size_struct>>

Blobs ==
    {[words |-> Header(magic, totalsize, off_struct, off_strings, size),
      nuls |-> nuls] :
        magic \in {MAGIC, <<0, 0>>}, totalsize \in {8, 40, 56, 64},
        off_struct \in {40, 48}, off_strings \in {56, 72},
        size \in {8, 16, 24}, nuls \in {{}, {60}}}

FdtInit ==
    /\ FdtAlone
    /\ blob \in Blobs
    /\ dtree = [some |-> FALSE]
    /\ dtres = [kind |-> "none"]

FromPtr ==
    /\ dtres.kind = "none"
    /\ dtree' = from_ptr(blob.words)
    /\ dtres' = [kind |-> "from_ptr"]
    /\ UNCHANGED <<fdtRest, blob>>

Tokens ==
    /\ dtree.some
    /\ dtres.kind # "panic"
    /\ dtres' = tokens(dtree)
    /\ UNCHANGED <<fdtRest, blob, dtree>>

StringAt(offset) ==
    /\ dtree.some
    /\ dtres.kind # "panic"
    /\ dtres' = string_at(dtree, blob.nuls, offset)
    /\ UNCHANGED <<fdtRest, blob, dtree>>

FdtNext ==
    \/ FromPtr
    \/ Tokens
    \/ \E offset \in {0, 8} : StringAt(offset)

SpecFdt == FdtInit /\ [][FdtNext]_vars

\* the header of the blob names blocks that end past totalsize, or the
\* header itself does not fit in totalsize
PastTotalsize(words) ==
    \/ words[2] < 40
    \/ words[3] + words[10] > words[2]
    \/ words[4] + words[9] > words[2]

\* C25: a blob with a wrong magic or with header offsets and sizes that
\* point past totalsize gives no DeviceTree, and no call on a device
\* tree panics; a name without terminator gives no string.
C25_MalformedRejected ==
    /\ dtres.kind # "none" /\ blob.words[1] # MAGIC => ~dtree.some
    /\ dtres.kind # "none" /\ PastTotalsize(blob.words) => ~dtree.some
    /\ dtres.kind # "panic"
    /\ dtres.kind = "str" => dtres.to \in blob.nuls

\* ------------------------------------------------------------------------
\* log/src/lib.rs init_log and log/src/value.rs Value::new
\* ------------------------------------------------------------------------

\* the init_log calls of one run
MaxLogCalls == 3

LOGGER_SIZE == 8

\* size_of::<usize>() and align_of::<Value>(), in bytes
WORD == 8

\* the loggers given to init_log: the UART driver and drivers::GlobalLog
\* of boot.rs, and loggers of other sizes and alignments
Loggers ==
    {[name |-> "uart", size |-> 8, align |-> 8],
     [name |-> "GlobalLog", size |-> 0, align |-> 1],
     [name |-> "fits", size |-> 56, align |-> 8],
     [name |-> "big", size |-> 64, align |-> 8],
     [name |-> "wide", size |-> 16, align |-> 16]}

\* Value::new: the alignment assertion, then new_raw: the data and the
\* one-word vtable pointer must fit in LOGGER_SIZE words
Value_new(val) ==
    IF val.align > WORD THEN "panic"
    ELSE IF WORD + val.size > LOGGER_SIZE * WORD THEN "Err"
    ELSE "Ok"

\* init_log: lock LOG, Value::new(log)?, *lock = Some(val), Ok(()).
\* The result and the logger installed after the call.
init_log(installed, log) ==
    LET val == Value_new(log)
    IN  IF val = "Ok"
        THEN [res |-> "Ok", installed |-> log.name]
        ELSE [res |-> val, installed |-> installed]

LogInit ==
    /\ LogAlone
    /\ logger = "None"
    /\ log_calls = << >>

InitLog(log) ==
    /\ Len(log_calls) < MaxLogCalls
    /\ \A i \in DOMAIN log_calls : log_calls[i].res # "panic"
    /\ \E r \in {init_log(logger, log)} :
           /\ logger' = r.installed
           /\ log_calls' = Append(log_calls,
                                  [log |-> log.name, before |-> logger,
                                   res |-> r.res, after |-> r.installed])
    /\ UNCHANGED logRest

LogNext == \E log \in Loggers : InitLog(log)

SpecLog == LogInit /\ [][LogNext]_vars

\* the loggers Value::new accepts
Fits(name) == \E l \in Loggers : l.name = name /\ Value_new(l) = "Ok"

\* C26: init_log with no logger installed returns Ok and installs the
\* given logger (if it fits in the global); init_log with a logger
\* installed returns Err and leaves the installed logger unchanged.
C26_InitLog ==
    \A i \in DOMAIN log_calls :
        LET c == log_calls[i]
        IN  /\ c.before = "None" /\ Fits(c.log) =>
                c.res = "Ok" /\ c.after = c.log
            /\ c.before # "None" =>
                c.res = "Err" /\ c.after = c.before

\* ------------------------------------------------------------------------
\* riscv/src/sync.rs RwLock: read, write and the drops of the guards
\* ------------------------------------------------------------------------

READER == 2

WRITER == 1

\* the harts and trap handlers that use one RwLock
RwUsers == 1 .. NumHarts + 1

\* value & WRITER != 0
has_writer(value) == value % 2 # 0

\* the lock word after fetch_and(!WRITER)
clear_writer(value) == value - (value % 2)

write_cas_any(value) ==
    IF ~has_writer(value)
    THEN [ok |-> TRUE, lock |-> value + WRITER]
    ELSE [ok |-> FALSE, lock |-> value]

\* write(): compare_exchange(0, WRITER)
write_cas(value) ==
    IF value = 0
    THEN [ok |-> TRUE, lock |-> WRITER]
    ELSE [ok |-> FALSE, lock |-> value]

Idle == [pc |-> "idle", value |-> 0]

RwInit ==
    /\ RwAlone
    /\ rwlock = 0
    /\ rw = [u \in RwUsers |-> Idle]

\* read(): let value = self.lock.fetch_add(READER)
ReadFetchAdd(u) ==
    /\ rw[u].pc = "idle"
    /\ rwlock' = rwlock + READER
    /\ rw' = [rw EXCEPT ![u] = [pc |-> "fetched", value |-> rwlock]]
    /\ UNCHANGED rwRest

\* read(): with a writer in the fetched value, fetch_sub(READER), spin and
\* start over
ReadUndo(u) ==
    /\ rw[u].pc = "fetched"
    /\ has_writer(rw[u].value)
    /\ rwlock' = rwlock - READER
    /\ rw' = [rw EXCEPT ![u] = Idle]
    /\ UNCHANGED rwRest

\* read(): without a writer in the fetched value, return the guard
ReadGuard(u) ==
    /\ rw[u].pc = "fetched"
    /\ ~has_writer(rw[u].value)
    /\ rw' = [rw EXCEPT ![u] = [pc |-> "reading", value |-> 0]]
    /\ UNCHANGED <<rwRest, rwlock>>

\* drop of RwLockReadGuard: fetch_sub(READER)
DropRead(u) ==
    /\ rw[u].pc = "reading"
    /\ rwlock' = rwlock - READER
    /\ rw' = [rw EXCEPT ![u] = Idle]
    /\ UNCHANGED rwRest

\* write(): one round of the loop; a failed exchange changes nothing
WriteCas(u) ==
    /\ rw[u].pc = "idle"
    /\ \E r \in {write_cas(rwlock)} :
           /\ rwlock' = r.lock
           /\ rw' = [rw EXCEPT ![u] = IF r.ok
                                      THEN [pc |-> "writing", value |-> 0]
                                      ELSE Idle]
    /\ UNCHANGED rwRest

\* drop of RwLockWriteGuard: fetch_and(!WRITER)
DropWrite(u) ==
    /\ rw[u].pc = "writing"
    /\ rwlock' = clear_writer(rwlock)
    /\ rw' = [rw EXCEPT ![u] = Idle]
    /\ UNCHANGED rwRest

RwNext ==
    \E u \in RwUsers :
        \/ ReadFetchAdd(u)
        \/ ReadUndo(u)
        \/ ReadGuard(u)
        \/ DropRead(u)
        \/ WriteCas(u)
        \/ DropWrite(u)

SpecRw == RwInit /\ [][RwNext]_vars

WriteGuards == {u \in RwUsers : rw[u].pc = "writing"}

ReadGuards == {u \in RwUsers : rw[u].pc = "reading"}

\* C27: at most one write guard exists, and while it exists no read guard
\* does.
C27_RwExclusive ==
    /\ Cardinality(WriteGuards) <= 1
    /\ WriteGuards # {} => ReadGuards = {}

\* a writer holds the lock while one user has added itself as a reader and
\* has to undo it, and a third user is idle, free to call read() or write()
C27_Witness ==
    \E w, r, i \in RwUsers :
        /\ rw[w].pc = "writing"
        /\ rw[r].pc = "fetched" /\ has_writer(rw[r].value)
        /\ rw[i].pc = "idle"

\* ------------------------------------------------------------------------
\* kernel/src/page.rs PageTable::map_alloc and PageTable::free
\* ------------------------------------------------------------------------

\* the buddy order of a page size: 0 for Kilopage, 9 for Megapage, and
\* unimplemented!() (-1 here) for the others
order_of(size) ==
    CASE size = "Kilopage" -> 0
      [] size = "Megapage" -> 9
      [] OTHER -> -1

\* The loop of map_alloc over the k pages from vaddr on: alloc_order, map,
\* sfence.  fences are the addresses of the sfence.vma of map and of the
\* loop, changed the addresses whose leaf entry was written.
RECURSIVE map_alloc_loop(_, _, _, _, _, _, _, _, _, _)
map_alloc_loop(a, m, rt, subs, vaddr, k, size, flags, fences, changed) ==
    IF k = 0
    THEN [a |-> a, subs |-> subs, res |-> "Ok", fences |-> fences,
          changed |-> changed]
    ELSE LET mapped_page(r) ==
                 IF r.res # "Ok"
                 THEN [a |-> r.a, subs |-> r.subs, res |-> r.res,
                       fences |-> fences, changed |-> changed]
                 ELSE map_alloc_loop(r.a, m, rt, r.subs,
                                     vaddr + Pow2(size_bits(size)), k - 1,
                                     size, flags,
                                     fences \o <<r.fence, vaddr>>,
                                     Append(changed, vaddr))
             page(p) ==
                 IF ~p.ok
                 THEN [a |-> p.a, subs |-> subs, res |-> "Alloc",
                       fences |-> fences, changed |-> changed]
                 ELSE CHOOSE x \in {mapped_page(r) :
                                      r \in {map(p.a, m, rt, subs, p.ptr,
                                                 vaddr, size, flags)}} : TRUE
         IN  CHOOSE x \in {page(p) : p \in {allocate(a, order_of(size))}} :
                 TRUE

\* PageTable::map_alloc
map_alloc(a, m, rt, subs, vaddr, count, size, flags) ==
    IF order_of(size) < 0
    THEN [a |-> a, subs |-> subs, res |-> "panic", fences |-> << >>,
          changed |-> << >>]
    ELSE map_alloc_loop(a, m, rt, subs, vaddr, count, size, flags, << >>,
                        << >>)

\* The loop of free over the k pages from page on: translate, unmap,
\* sfence, free_order.  The sfence is given vaddr, the first address of
\* the allocation.
RECURSIVE free_loop(_, _, _, _, _, _, _, _, _)
free_loop(a, m, rt, vaddr, page, k, size, fences, changed) ==
    IF k = 0
    THEN [a |-> a, res |-> "Ok", fences |-> fences, changed |-> changed]
    ELSE LET freed(d, um) ==
                 IF d.res = "ok"
                 THEN free_loop(d.a, m, rt, vaddr,
                                page + Pow2(size_bits(size)), k - 1, size,
                                Append(fences, vaddr), Append(changed, page))
                 ELSE [a |-> d.a,
                       res |-> IF d.res \in {"panic", "hang"} THEN d.res
                               ELSE "Alloc",
                       fences |-> Append(fences, vaddr),
                       changed |-> Append(changed, page)]
             unmapped(t, um) ==
                 IF um.res # "true"
                 THEN [a |-> a, res |-> "panic", fences |-> fences,
                       changed |-> changed]
                 ELSE CHOOSE x \in
                          {freed(d, um) :
                             d \in {deallocate([a EXCEPT !.mem = um.mem],
                                               t.paddr, order_of(size))}} :
                          TRUE
             translated(t) ==
                 IF t.found # "leaf"
                 THEN [a |-> a, res |-> "panic", fences |-> fences,
                       changed |-> changed]
                 ELSE CHOOSE x \in {unmapped(t, um) :
                                      um \in {unmap(a.mem, m, rt, page)}} :
                          TRUE
         IN  CHOOSE x \in {translated(t) :
                             t \in {translate(a.mem, m, rt, page)}} : TRUE

\* PageTable::free
free(a, m, rt, vaddr, count) ==
    LET start(t) ==
            IF t.found = "none"
            THEN [a |-> a, res |-> "InvalidAddress", fences |-> << >>,
                  changed |-> << >>]
            ELSE IF t.found = "panic" \/ order_of(t.size) < 0
            THEN [a |-> a, res |-> "panic", fences |-> << >>,
                  changed |-> << >>]
            ELSE free_loop(a, m, rt, vaddr, vaddr, count, t.size, << >>,
                           << >>)
    IN  CHOOSE x \in {start(t) : t \in {translate(a.mem, m, rt, vaddr)}} :
            TRUE

\* the allocations map_alloc and free are called with
AllocCounts == 1 .. 2

AllocVAddrs == {0, 1075838976}

AllocSizes == {"Kilopage", "Megapage"}

MapAlloc(vaddr, count, size, flags) ==
    /\ status = "running"
    /\ nops < MaxPageOps
    /\ \E r \in {map_alloc(Alloc, mode, root, subtables, vaddr, count, size,
                           flags)} :
           /\ SetAlloc(r.a)
           /\ subtables' = r.subs
           /\ plast' = [op |-> "map_alloc", vaddr |-> vaddr,
                        count |-> count, size |-> size, res |-> r.res,
                        fences |-> r.fences, changed |-> r.changed]
           /\ mapped' = mapped \cup Range(r.changed)
           /\ status' = IF r.res = "panic" THEN "panic" ELSE "running"
    /\ nops' = nops + 1
    /\ UNCHANGED <<outstanding, regions, phase, base_total, last, mode, root,
                   otherVars>>

Free(vaddr, count) ==
    /\ status = "running"
    /\ nops < MaxPageOps
    /\ \E r \in {free(Alloc, mode, root, vaddr, count)} :
           /\ SetAlloc(r.a)
           /\ plast' = [op |-> "free", vaddr |-> vaddr, count |-> count,
                        res |-> r.res, fences |-> r.fences,
                        changed |-> r.changed]
           /\ mapped' = mapped \ Range(r.changed)
           /\ status' = IF r.res \in {"panic", "hang"} THEN r.res
                        ELSE "running"
    /\ nops' = nops + 1
    /\ UNCHANGED <<outstanding, regions, phase, base_total, last, mode, root,
                   subtables, otherVars>>

FreeNext ==
    \/ \E v \in AllocVAddrs, n \in AllocCounts, s \in AllocSizes,
          f \in FlagSets : MapAlloc(v, n, s, f)
    \/ \E v \in AllocVAddrs, n \in AllocCounts : Free(v, n)

SpecFree == PageInit /\ [][FreeNext]_vars

\* C28: every virtual address whose leaf entry map, map_alloc or free has
\* written is the address of an sfence.vma of the same call.
C28_FenceEachPage ==
    /\ plast.op = "map" /\ plast.res = "Ok" => plast.fence = plast.vaddr
    /\ plast.op \in {"map_alloc", "free"} =>
           Range(plast.changed) \subseteq Range(plast.fences)

\* ------------------------------------------------------------------------
\* The tables the page-table walk reaches
\* ------------------------------------------------------------------------

\* the pages the entries of a table at level idx point to that map (its
\* loop over the levels) and traverse follow as branches, and the pages
\* reached through them; level 0 is never followed
RECURSIVE BranchTargets(_, _)
BranchTargets(table, idx) ==
    IF idx = 0 \/ table \notin DOMAIN mem THEN {}
    ELSE UNION {{entry_next(mem[table][w])} \cup
                    BranchTargets(entry_next(mem[table][w]), idx - 1) :
                w \in {x \in DOMAIN mem[table] :
                          entry_kind(mem[table][x]) = "Branch"}}

\* C29: as long as the table lives, every page the walk reaches from the
\* root through branch entries is a page map allocated and pushed to
\* subtables, and no page is in subtables twice.
C29_BranchesAreSubtables ==
    status = "running" =>
        /\ BranchTargets(root, LEVELS(mode) - 1) \subseteq Range(subtables)
        /\ \A i, j \in DOMAIN subtables :
               subtables[i] = subtables[j] => i = j

\* ------------------------------------------------------------------------
\* page::root(), map through its guard, and the deallocate of the
\* allocator behind the subtables vector (pmem.rs)
\* ------------------------------------------------------------------------

\* the subtables one run pushes
MaxSubtables == 6

\* the first capacity of a Vec of pointers
MIN_NON_ZERO_CAP == 4

\* Vec::push on the subtables vector.  A full vector grows: it allocates
\* the doubled buffer and, when it had a buffer, gives the old one to
\* deallocate of its allocator.
vec_push(v) ==
    IF v.len < v.cap
    THEN [len |-> v.len + 1, cap |-> v.cap, dealloc |-> FALSE]
    ELSE IF v.cap = 0
    THEN [len |-> 1, cap |-> MIN_NON_ZERO_CAP, dealloc |-> FALSE]
    ELSE [len |-> v.len + 1, cap |-> 2 * v.cap, dealloc |-> TRUE]

\* The loop of map over the levels, for a request that finds n empty
\* entries on its way: n pushes.  PhysicalAllocator::deallocate begins with
\* page::root(), which locks the mutex of the table: relock says the walk
\* stopped there.
RECURSIVE map_pushes(_, _)
map_pushes(v, n) ==
    IF n = 0 THEN [len |-> v.len, cap |-> v.cap, relock |-> FALSE]
    ELSE LET p == vec_push(v)
         IN  IF p.dealloc
             THEN [len |-> v.len, cap |-> v.cap, relock |-> TRUE]
             ELSE map_pushes([len |-> p.len, cap |-> p.cap], n - 1)

RootInit ==
    /\ RootAlone
    /\ table_lock = [next_ticket |-> 0, now_serving |-> 0]
    /\ roots = [h \in Harts |-> [pc |-> "idle", ticket |-> 0]]
    /\ subvec = [len |-> 0, cap |-> 0]

\* page::root(): Mutex::lock, fetch_add on next_ticket
RootTicket(h) ==
    /\ roots[h].pc = "idle"
    /\ table_lock.next_ticket < MaxLocks
    /\ table_lock' = [table_lock EXCEPT !.next_ticket = @ + 1]
    /\ roots' = [roots EXCEPT ![h] = [pc |-> "spin",
                                      ticket |-> table_lock.next_ticket]]
    /\ UNCHANGED <<rootRest, subvec>>

\* Mutex::lock: the spin loop ends when now_serving is the ticket
RootSpin(h) ==
    /\ roots[h].pc = "spin"
    /\ table_lock.now_serving = roots[h].ticket
    /\ roots' = [roots EXCEPT ![h].pc = "held"]
    /\ UNCHANGED <<rootRest, table_lock, subvec>>

\* map through the guard, n new subtables on the way.  When the vector
\* grows, deallocate calls page::root() on this hart: it draws the next
\* ticket and spins while the hart still holds the guard.
RootMap(h, n) ==
    /\ roots[h].pc = "held"
    /\ subvec.len + n <= MaxSubtables
    /\ \E r \in {map_pushes(subvec, n)} :
           /\ subvec' = [len |-> r.len, cap |-> r.cap]
           /\ IF r.relock
              THEN /\ table_lock' =
                          [table_lock EXCEPT !.next_ticket = @ + 1]
                   /\ roots' = [roots EXCEPT ![h] =
                                   [pc |-> "relock",
                                    ticket |-> table_lock.next_ticket]]
              ELSE UNCHANGED <<table_lock, roots>>
    /\ UNCHANGED rootRest

\* drop of the TableGuard: now_serving = ticket + 1
RootDrop(h) ==
    /\ roots[h].pc = "held"
    /\ table_lock' = [table_lock EXCEPT !.now_serving = roots[h].ticket + 1]
    /\ roots' = [roots EXCEPT ![h].pc = "idle"]
    /\ UNCHANGED <<rootRest, subvec>>

RootNext ==
    \E h \in Harts :
        \/ RootTicket(h)
        \/ RootSpin(h)
        \/ \E n \in 0 .. 2 : RootMap(h, n)
        \/ RootDrop(h)

SpecRoot == RootInit /\ [][RootNext]_vars

\* C31: no hart is in the lock() of the page-table mutex while it holds
\* the guard of that mutex.
C31_NoRelock == \A h \in Harts : roots[h].pc # "relock"
\* ------------------------------------------------------------------------
\* The boot hart from pmem::init to rust_trampoline (boot.rs _before_main,
\* entry_trampoline)
\* Physical addresses of this part are written less 0x4000_0000.  A virtual
\* address is a record [mib, lo]: the address mib * 2^20 + lo, lo < 2^20.
\* ------------------------------------------------------------------------

\* unit.rs: pub const MIB
MIB == 1048576

\* boot.rs: KERNEL_STACK_BASE = 0x001D_DD00_0000, in MiB
KERNEL_STACK_BASE_MIB == 122320

\* Number of pages of a kernel stack; boot.rs has KERNEL_STACK_SIZE of 256
\* pages.
StackPages == 2

\* boot.rs: KERNEL_STACK_SIZE
KERNEL_STACK_SIZE == StackPages * PAGE_SIZE

\* Largest number of live words on the boot stack at entry_trampoline.
MaxLive == 3

VirtAddr(mib, lo) == [mib |-> mib + lo \div MIB, lo |-> lo % MIB]

\* memmap.rs phys2virt: paddr + PHYSICAL_MEMORY_OFFSET, the offset in MiB
phys2virt(paddr, offset) == VirtAddr(offset, paddr)

\* the mapping m of a page table covers the virtual address v
Covers(m, v) ==
    /\ v.mib - m.vaddr.mib \in 0 .. 2
    /\ (v.mib - m.vaddr.mib) * MIB + v.lo - m.vaddr.lo \in 0 .. (m.size - 1)

\* the hart can access v: paging is off, or a mapping covers v
Mapped(maps, paging, v) == ~paging \/ \E m \in maps : Covers(m, v)

\* buddy.rs order_for_size, for sizes up to four pages
order_for_size(size) ==
    IF size <= PAGE_SIZE THEN 0
    ELSE IF size <= 2 * PAGE_SIZE THEN 1
    ELSE 2

\* The /memory nodes of the device trees: one bank
\* [0x8000_0000, 0x8040_0000), or this bank and the bank
\* [0x8060_0000, 0x8080_0000) in both orders.
EnterTrees ==
    { << <<1073741824, 1077936128>> >>,
      << <<1073741824, 1077936128>>, <<1080033280, 1082130432>> >>,
      << <<1080033280, 1082130432>>, <<1073741824, 1077936128>> >> }

\* symbols.rs: the sections of the image, from 0x8020_0000 on one page
\* each: text, rodata, data, tdata, bss and the boot stack
Sections ==
    [i \in 1 .. 6 |-> <<1075838976 + (i - 1) * PAGE_SIZE,
                        1075838976 + i * PAGE_SIZE>>]

\* symbols.rs kernel_range()
EnterKernel == <<Sections[1][1], Sections[6][2]>>

\* __stack_end
StackEnd == Sections[6][2]

\* boot.rs: the loop over the first /memory region, one megapage each turn
physmem_maps(region) ==
    IF region[1] % (2 * MIB) # 0
    THEN [res |-> "UnalignedAddress", maps |-> {}]
    ELSE [res |-> "Ok",
          maps |-> {[vaddr |-> VirtAddr(PHYS_MEM_BASE_MIB, page),
                     size |-> 2 * MIB] :
                    page \in {region[1] + i * 2 * MIB :
                              i \in 0 .. (region[2] - region[1] - 1)
                                         \div (2 * MIB)}}]

\* boot.rs map_section: every page of the section is mapped at its
\* physical address
map_section(section) ==
    {[vaddr |-> VirtAddr(0, page), size |-> PAGE_SIZE] :
     page \in {section[1] + i * PAGE_SIZE :
               i \in 0 .. (section[2] - section[1] - 1) \div PAGE_SIZE}}

\* map_alloc of alloc_kernel_stack, as far as this part depends on it:
\* alloc_order(0) for each of the k pages of the stack
RECURSIVE stack_pages(_, _)
stack_pages(a, k) ==
    IF k = 0 THEN [a |-> a, ok |-> TRUE]
    ELSE LET page(p) == IF p.ok THEN stack_pages(p.a, k - 1)
                        ELSE [a |-> p.a, ok |-> FALSE]
         IN  CHOOSE x \in {page(p) : p \in {allocate(a, 0)}} : TRUE

EnterInit ==
    /\ EnterAlone
    /\ \E tree \in EnterTrees, size \in {PAGE_SIZE, 2 * PAGE_SIZE},
          live \in 0 .. MaxLive, id \in 0 .. 1 :
           \E words \in [1 .. live -> 1 .. 2] :
               enter = [pc |-> "start", tree |-> tree, total_size |-> size,
                        live |-> live, words |-> words, hart_id |-> id,
                        maps |-> {}, paging |-> FALSE, offset |-> 0]

\* boot.rs: pmem::init(&fdt).unwrap()
EnterPmem ==
    /\ enter.pc = "start"
    /\ \E r \in {pmem_init(NewAllocator, enter.tree, EnterKernel)} :
           enter' = IF r.res = "Ok"
                    THEN [pc |-> "copy_fdt", a |-> r.a] @@ enter
                    ELSE [enter EXCEPT !.pc = "panic"]
    /\ UNCHANGED enterRest

\* boot.rs: the devicetree is copied to pages of pmem::alloc_order
EnterCopyFdt ==
    /\ enter.pc = "copy_fdt"
    /\ \E r \in {allocate(enter.a, order_for_size(enter.total_size))} :
           enter' = IF r.ok
                    THEN [pc |-> "physmem", a |-> r.a, fdt |-> r.ptr] @@ enter
                    ELSE [enter EXCEPT !.pc = "panic"]
    /\ UNCHANGED enterRest

\* boot.rs: fdt.memory().regions().next().unwrap() is mapped at
\* KERNEL_PHYS_MEM_BASE
EnterPhysmem ==
    /\ enter.pc = "physmem"
    /\ \E r \in {physmem_maps(enter.tree[1])} :
           enter' = IF r.res = "Ok"
                    THEN [enter EXCEPT !.pc = "sections",
                                       !.maps = @ \cup r.maps]
                    ELSE [enter EXCEPT !.pc = "panic"]
    /\ UNCHANGED enterRest

\* boot.rs: the six calls of map_section
EnterSections ==
    /\ enter.pc = "sections"
    /\ enter' = [enter EXCEPT
                    !.pc = "stack",
                    !.maps = @ \cup UNION {map_section(Sections[i]) :
                                           i \in DOMAIN Sections}]
    /\ UNCHANGED enterRest

\* boot.rs: alloc_kernel_stack(table, hart_id): the stack is mapped at
\* start, its end is the new stack pointer
EnterStack ==
    /\ enter.pc = "stack"
    /\ \E r \in {stack_pages(enter.a, KERNEL_STACK_SIZE \div PAGE_SIZE)} :
           LET start == VirtAddr(KERNEL_STACK_BASE_MIB,
                                 enter.hart_id
                                     * (KERNEL_STACK_SIZE + PAGE_SIZE))
           IN  enter' =
                   IF r.ok
                   THEN [pc |-> "satp", a |-> r.a,
                         maps |-> enter.maps \cup
                                  {[vaddr |-> start,
                                    size |-> KERNEL_STACK_SIZE]},
                         stack |-> VirtAddr(start.mib,
                                            start.lo + KERNEL_STACK_SIZE)]
                        @@ enter
                   ELSE [enter EXCEPT !.pc = "panic"]
    /\ UNCHANGED enterRest

\* boot.rs: satp::write and the sfence after it.  offset is the value
\* phys2virt adds from now on: PHYSICAL_MEMORY_OFFSET is 0 until
\* set_phymem_offset stores the base of the window.
EnterSatp(offset) ==
    /\ enter.pc = "satp"
    /\ enter' = [enter EXCEPT !.pc = "from_ptr", !.paging = TRUE,
                              !.offset = offset]
    /\ UNCHANGED enterRest

\* the addresses the hart reads and writes in DeviceTree::from_ptr(
\* page::phys2virt(fdt.as_ptr())): the code, the boot stack and the magic
\* of the copy
from_ptr_touches(e) ==
    { VirtAddr(0, Sections[1][1]),
      VirtAddr(0, StackEnd - 8 * e.live - 8),
      phys2virt(e.fdt, e.offset) }

\* boot.rs: DeviceTree::from_ptr on the copy; an address that is not
\* mapped is a page fault
EnterFromPtr ==
    /\ enter.pc = "from_ptr"
    /\ enter' =
           IF \A v \in from_ptr_touches(enter) :
                  Mapped(enter.maps, enter.paging, v)
           THEN [enter EXCEPT !.pc = "trampoline"]
           ELSE [pc |-> "fault",
                 stval |-> {v \in from_ptr_touches(enter) :
                               ~Mapped(enter.maps, enter.paging, v)}]
                @@ enter
    /\ UNCHANGED enterRest

\* v - n for a virtual address v
VSub(v, n) ==
    IF v.lo >= n THEN [mib |-> v.mib, lo |-> v.lo - n]
    ELSE [mib |-> v.mib - 1, lo |-> v.lo + MIB - n]

\* the word of the boot stack at the physical address addr; words[i] is the
\* word 8 * i below __stack_end
BootWord(words, addr) == words[(StackEnd - addr) \div 8]

\* entry_trampoline, one turn of copy_stack without the move of sp
copy_turn_keeps_sp(r) ==
    [r EXCEPT !.t2 = @ - 8, !.t1 = VSub(@, 8)]

\* entry_trampoline, one turn of copy_stack: the three addi
copy_turn(r) ==
    [r EXCEPT !.t2 = @ - 8, !.t1 = VSub(@, 8), !.sp = VSub(@, 8)]

\* entry_trampoline: mv t0, sp; mv sp, a2; mv t1, a2; la t2, __stack_end
EntryTrampoline ==
    /\ enter.pc = "trampoline"
    /\ enter' = [pc |-> "copy_stack",
                 regs |-> [t0 |-> StackEnd - 8 * enter.live,
                           sp |-> enter.stack, t1 |-> enter.stack,
                           t2 |-> StackEnd],
                 new |-> << >>] @@ enter
    /\ UNCHANGED enterRest

\* entry_trampoline: a turn of copy_stack, bleu t2, t0 not taken; the load
\* from the boot stack and the store to the new stack fault if the address
\* is not mapped
CopyStack ==
    /\ enter.pc = "copy_stack"
    /\ enter.regs.t2 > enter.regs.t0
    /\ \E r \in {copy_turn(enter.regs)} :
           enter' =
               IF /\ Mapped(enter.maps, enter.paging, VirtAddr(0, r.t2))
                  /\ Mapped(enter.maps, enter.paging, r.t1)
               THEN [enter EXCEPT
                        !.regs = r,
                        !.new = (r.t1 :> BootWord(enter.words, r.t2)) @@ @]
               ELSE [pc |-> "fault", stval |-> {VirtAddr(0, r.t2), r.t1}]
                    @@ enter
    /\ UNCHANGED enterRest

\* entry_trampoline: bleu t2, t0, copy_stack_done; jr a3
CopyStackDone ==
    /\ enter.pc = "copy_stack"
    /\ enter.regs.t2 <= enter.regs.t0
    /\ enter' = [enter EXCEPT !.pc = "rust_trampoline"]
    /\ UNCHANGED enterRest

EnterNext ==
    \/ EnterPmem
    \/ EnterCopyFdt
    \/ EnterPhysmem
    \/ EnterSections
    \/ EnterStack
    \/ \E offset \in {0, PHYS_MEM_BASE_MIB} : EnterSatp(offset)
    \/ EnterFromPtr
    \/ EntryTrampoline
    \/ CopyStack
    \/ CopyStackDone

SpecEnter == EnterInit /\ [][EnterNext]_vars

\* the hart goes on executing the instructions of the copy loop
FairSpecEnter == SpecEnter /\ WF_vars(CopyStack \/ CopyStackDone)

\* C32: no address the boot hart touches between the satp write and the
\* entry into rust_trampoline is unmapped: the hart takes no page fault.
C32_MappedAtSatp == enter.pc # "fault"

\* the new stack holds, at the same distance from its top, the words of
\* the boot stack from old_sp to __stack_end, and nothing else
ExactCopy ==
    /\ DOMAIN enter.new = {VSub(enter.stack, 8 * i) : i \in 1 .. enter.live}
    /\ \A i \in 1 .. enter.live :
           enter.new[VSub(enter.stack, 8 * i)] = enter.words[i]

\* C35: the copy loop of entry_trampoline ends, and at the jump to the
\* destination the new stack holds exactly the live words of [old_sp,
\* __stack_end) at the same offset from its top and sp is the new stack top
\* less __stack_end - old_sp.
C35_StackCopied ==
    /\ [](enter.pc = "rust_trampoline" =>
             /\ ExactCopy
             /\ enter.regs.sp = VSub(enter.stack, 8 * enter.live))
    /\ (enter.pc = "copy_stack" ~> enter.pc = "rust_trampoline")

C35_Witness ==
    /\ enter.pc = "rust_trampoline"
    /\ enter.live = MaxLive
    /\ Cardinality(Range(enter.words)) = 2
\* ------------------------------------------------------------------------
\* boot.rs alloc_kernel_stack on the page table
\* ------------------------------------------------------------------------

\* boot.rs: KERNEL_STACK_BASE + id * (KERNEL_STACK_SIZE + PAGE_SIZE), the
\* bits of the address below 2^31; the bits above choose the same entry of
\* the root table for every stack
stack_start(id) ==
    (KERNEL_STACK_BASE_MIB % 2048) * MIB
        + id * (KERNEL_STACK_SIZE + PAGE_SIZE)

\* boot.rs alloc_kernel_stack: map_alloc of the stack with READ | WRITE,
\* map of the guard page with EXEC, translate(start); each result is
\* unwrapped.  paddr and vaddr are the two stack tops that are returned.
alloc_kernel_stack(a, m, rt, subs, id) ==
    LET start == stack_start(id)
        fail(x, res) == [a |-> x.a, subs |-> x.subs, res |-> res,
                         paddr |-> 0, vaddr |-> 0]
        top(g, t) ==
            IF t.found # "leaf" THEN fail(g, "panic")
            ELSE [a |-> g.a, subs |-> g.subs, res |-> "Ok",
                  paddr |-> t.paddr + KERNEL_STACK_SIZE,
                  vaddr |-> start + KERNEL_STACK_SIZE]
        guard(g) ==
            IF g.res # "Ok" THEN fail(g, "panic")
            ELSE CHOOSE x \in {top(g, t) :
                                 t \in {translate(g.a.mem, m, rt, start)}} :
                     TRUE
        stack(s) ==
            IF s.res # "Ok" THEN fail(s, "panic")
            ELSE CHOOSE x \in
                     {guard(g) :
                        g \in {map(s.a, m, rt, s.subs, 0,
                                   start + KERNEL_STACK_SIZE, "Kilopage",
                                   8)}} : TRUE
    IN  CHOOSE x \in
            {stack(s) :
               s \in {map_alloc(a, m, rt, subs, start,
                                KERNEL_STACK_SIZE \div PAGE_SIZE, "Kilopage",
                                6)}} : TRUE

AllocKernelStack(id) ==
    /\ status = "running"
    /\ nops < MaxPageOps
    /\ \E r \in {alloc_kernel_stack(Alloc, mode, root, subtables, id)} :
           /\ SetAlloc(r.a)
           /\ subtables' = r.subs
           /\ plast' = [op |-> "alloc_kernel_stack", id |-> id,
                        res |-> r.res, paddr |-> r.paddr, vaddr |-> r.vaddr]
           /\ mapped' = IF r.res = "Ok"
                        THEN mapped \cup
                             {stack_start(id) + i * PAGE_SIZE :
                              i \in 0 .. KERNEL_STACK_SIZE \div PAGE_SIZE}
                        ELSE mapped
           /\ status' = IF r.res = "panic" THEN "panic" ELSE "running"
    /\ nops' = nops + 1
    /\ UNCHANGED <<outstanding, regions, phase, base_total, last, mode, root,
                   otherVars>>

\* the stacks of the harts are allocated while the table has other
\* mappings
StackNext ==
    \/ \E id \in 0 .. 1 : AllocKernelStack(id)
    \/ \E r \in MapRequests, f \in FlagSets : Map(r[1], r[2], r[3], f)

SpecStack == PageInit /\ [][StackNext]_vars

\* C33: after alloc_kernel_stack every address start + k of the stack,
\* k in [0, KERNEL_STACK_SIZE), has the physical address of start plus k,
\* so that the physical stack top less k and the virtual stack top less k
\* are the same memory.
C33_StackContiguous ==
    plast.op = "alloc_kernel_stack" /\ plast.res = "Ok" =>
        \A k \in {i * PAGE_SIZE + b :
                  i \in 0 .. (KERNEL_STACK_SIZE \div PAGE_SIZE - 1),
                  b \in {0, PAGE_SIZE - 8}} :
            LET t == translate(mem, mode, root,
                               plast.vaddr - KERNEL_STACK_SIZE + k)
            IN  /\ t.found = "leaf"
                /\ t.paddr = plast.paddr - KERNEL_STACK_SIZE + k
\* ------------------------------------------------------------------------
\* kernel/src/trap.rs _trap_handler: the prologue and the epilogue
\* ------------------------------------------------------------------------

\* hart.rs HartContext, #[repr(C)]: the offsets of trap_stack and temp_sp
TRAP_STACK_OFFSET == 8

TEMP_SP_OFFSET == 16

\* trap.rs: the size of the trap frame, addi sp, sp, -512
FRAME_SIZE == 512

\* the address of the hart context in sscratch, and the end of the trap
\* stack in it
CtxPtr == PAGE_SIZE

TrapStackEnd == 4 * PAGE_SIZE

MemRd(m, addr) == IF addr \in DOMAIN m THEN m[addr] ELSE 0

MemWr(m, addr, v) == (addr :> v) @@ m

\* the offset in the frame the epilogue loads x(i) from, moved by a slot
xslot_load_shifted(i) == 8 * i

\* the offset in the frame the prologue stores x(i) to: sd x(i), 8(i-1)(sp)
xslot_store(i) == 8 * (i - 1)

\* the offset in the frame the epilogue loads x(i) from: ld x(i), 8(i-1)(sp)
xslot_load(i) == 8 * (i - 1)

\* the offset of f(i) in the frame: fsd f(i), 248+8i(sp) and the fld
fslot(i) == 248 + 8 * i

\* the offset of the FP control and status word in the frame
FCSR_SLOT == 504

\* The instructions of _trap_handler in their order.  sd, ld, fsd, fld have
\* the register, the offset and the base register; csrrw swaps the
\* register and the CSR.
TrapProgram ==
    << [op |-> "csrci", csr |-> "sstatus", imm |-> 2],
       [op |-> "csrrw", r |-> 8, csr |-> "sscratch"],
       [op |-> "sd", r |-> 2, off |-> TEMP_SP_OFFSET, base |-> 8],
       [op |-> "ld", r |-> 2, off |-> TRAP_STACK_OFFSET, base |-> 8],
       [op |-> "addi", r |-> 2, imm |-> -FRAME_SIZE],
       [op |-> "sd", r |-> 1, off |-> xslot_store(1), base |-> 2],
       [op |-> "ld", r |-> 1, off |-> TEMP_SP_OFFSET, base |-> 8],
       [op |-> "sd", r |-> 1, off |-> xslot_store(2), base |-> 2],
       [op |-> "csrrw", r |-> 8, csr |-> "sscratch"] >>
    \o [i \in 1 .. 29 |->
          [op |-> "sd", r |-> i + 2, off |-> xslot_store(i + 2), base |-> 2]]
    \o [i \in 1 .. 32 |->
          [op |-> "fsd", r |-> i - 1, off |-> fslot(i - 1), base |-> 2]]
    \o << [op |-> "csrr", r |-> 5, csr |-> "fcsr"],
          [op |-> "sd", r |-> 5, off |-> FCSR_SLOT, base |-> 2],
          [op |-> "li", r |-> 5, imm |-> 32],
          [op |-> "csrs", csr |-> "sstatus", r |-> 5],
          [op |-> "mv", r |-> 10, from |-> 2],
          [op |-> "csrr", r |-> 11, csr |-> "scause"],
          [op |-> "csrr", r |-> 12, csr |-> "stval"],
          [op |-> "csrr", r |-> 13, csr |-> "sepc"],
          [op |-> "call"],
          [op |-> "csrw", r |-> 10, csr |-> "sepc"],
          [op |-> "ld", r |-> 5, off |-> FCSR_SLOT, base |-> 2],
          [op |-> "csrw", r |-> 5, csr |-> "fcsr"],
          [op |-> "ld", r |-> 1, off |-> xslot_load(1), base |-> 2] >>
    \o [i \in 1 .. 29 |->
          [op |-> "ld", r |-> i + 2, off |-> xslot_load(i + 2), base |-> 2]]
    \o [i \in 1 .. 32 |->
          [op |-> "fld", r |-> i - 1, off |-> fslot(i - 1), base |-> 2]]
    \o << [op |-> "ld", r |-> 2, off |-> xslot_load(2), base |-> 2],
          [op |-> "sret"] >>

\* v with the bits of mask cleared or set; mask is a power of two
ClearBit(v, mask) == v - ((v \div mask) % 2) * mask

SetBit(v, mask) == v + (1 - ((v \div mask) % 2)) * mask

\* one instruction other than call and sret on the hart c
exec(c, i) ==
    CASE i.op = "csrci" ->
             [c EXCEPT !.csr[i.csr] = ClearBit(@, i.imm)]
      [] i.op = "csrs" ->
             [c EXCEPT !.csr[i.csr] = SetBit(@, c.x[i.r])]
      [] i.op = "csrrw" ->
             [c EXCEPT !.csr[i.csr] = c.x[i.r], !.x[i.r] = c.csr[i.csr]]
      [] i.op = "csrr" -> [c EXCEPT !.x[i.r] = c.csr[i.csr]]
      [] i.op = "csrw" -> [c EXCEPT !.csr[i.csr] = c.x[i.r]]
      [] i.op = "sd" ->
             [c EXCEPT !.mem = MemWr(@, c.x[i.base] + i.off, c.x[i.r])]
      [] i.op = "ld" ->
             [c EXCEPT !.x[i.r] = MemRd(c.mem, c.x[i.base] + i.off)]
      [] i.op = "fsd" ->
             [c EXCEPT !.mem = MemWr(@, c.x[i.base] + i.off, c.f[i.r])]
      [] i.op = "fld" ->
             [c EXCEPT !.f[i.r] = MemRd(c.mem, c.x[i.base] + i.off)]
      [] i.op = "addi" -> [c EXCEPT !.x[i.r] = @ + i.imm]
      [] i.op = "li" -> [c EXCEPT !.x[i.r] = i.imm]
      [] i.op = "mv" -> [c EXCEPT !.x[i.r] = c.x[i.from]]

\* the registers a function may change under the calling convention: ra,
\* t0-t6, a0-a7 and ft0-ft11, fa0-fa7
CallerSavedX == {1} \cup 5 .. 7 \cup 10 .. 17 \cup 28 .. 31

CallerSavedF == 0 .. 7 \cup 10 .. 17 \cup 28 .. 31

\* The hart when the trap is taken: sscratch holds the hart context that
\* init_hart_context made, the registers hold values of the interrupted
\* code.
FrameInit ==
    /\ FrameAlone
    /\ \E seed \in 1 .. 2, sp \in {8 * PAGE_SIZE, 8 * PAGE_SIZE - 16},
          fcsr \in {0, 1}, scause \in {1, INTERRUPT_BIT + 5} :
           LET x == [i \in 1 .. 31 |->
                        IF i = 2 THEN sp ELSE 100 * seed + i]
               f == [i \in 0 .. 31 |-> 200 * seed + i]
               csr == [sstatus |-> 32 * (seed - 1), sscratch |-> CtxPtr,
                       fcsr |-> fcsr, scause |-> scause, stval |-> 0,
                       sepc |-> 64 * seed]
           IN  cpu = [at |-> "trap", ip |-> 1, x |-> x, f |-> f,
                      csr |-> csr,
                      mem |-> (CtxPtr + TRAP_STACK_OFFSET) :> TrapStackEnd,
                      taken |-> [x |-> x, f |-> f, csr |-> csr]]

\* one instruction of _trap_handler
Exec ==
    /\ cpu.at = "trap"
    /\ TrapProgram[cpu.ip].op \notin {"call", "sret"}
    /\ cpu' = [exec(cpu, TrapProgram[cpu.ip]) EXCEPT !.ip = cpu.ip + 1]
    /\ UNCHANGED frameRest

\* call trap_handler, for a handler that returns: the Rust code leaves the
\* frame alone, keeps sp and the callee-saved registers and returns the new
\* sepc in a0; the other registers and the flags of fcsr hold what the
\* handler left in them
Call(garbage, sepc) ==
    /\ cpu.at = "trap"
    /\ TrapProgram[cpu.ip].op = "call"
    /\ cpu' = [cpu EXCEPT
                  !.ip = @ + 1,
                  !.x = [i \in 1 .. 31 |->
                            IF i = 10 THEN sepc
                            ELSE IF i \in CallerSavedX THEN garbage
                            ELSE cpu.x[i]],
                  !.f = [i \in 0 .. 31 |->
                            IF i \in CallerSavedF THEN garbage
                            ELSE cpu.f[i]],
                  !.csr["fcsr"] = garbage]
    /\ UNCHANGED frameRest

\* sret: the hart goes on at sepc
Sret ==
    /\ cpu.at = "trap"
    /\ TrapProgram[cpu.ip].op = "sret"
    /\ cpu' = [cpu EXCEPT !.at = "returned"]
    /\ UNCHANGED frameRest

FrameNext ==
    \/ Exec
    \/ \E garbage \in {0, 3} :
          \E sepc \in {cpu.taken.csr.sepc, cpu.taken.csr.sepc + 4} :
              Call(garbage, sepc)
    \/ Sret

SpecFrame == FrameInit /\ [][FrameNext]_vars

\* C36: after the sret of a trap whose Rust handler returned, x1..x31, the
\* floating-point registers, the FP control and status word and sscratch
\* hold the values they had when the trap was taken.
C36_ContextPreserved ==
    cpu.at = "returned" =>
        /\ cpu.x = cpu.taken.x
        /\ cpu.f = cpu.taken.f
        /\ cpu.csr.fcsr = cpu.taken.csr.fcsr
        /\ cpu.csr.sscratch = cpu.taken.csr.sscratch

C36_Witness ==
    /\ cpu.at = "returned"
    /\ cpu.csr.sepc # cpu.taken.csr.sepc
    /\ cpu.taken.csr.fcsr = 1
    /\ MemRd(cpu.mem, TrapStackEnd - FRAME_SIZE + fslot(31)) = cpu.f[31]
\* ------------------------------------------------------------------------
\* devicetree/src/lib.rs find_nodes and find_node
\* A name is a sequence of characters, a path the sequence of its parts as
\* split_terminator('/') gives them: the first part of "/cpus" is empty.
\* ------------------------------------------------------------------------

\* str::starts_with
starts_with(name, part) ==
    /\ Len(part) <= Len(name)
    /\ SubSeq(name, 1, Len(part)) = part

Begin(name) == [t |-> "BeginNode", name |-> name]

End == [t |-> "EndNode"]

Prop == [t |-> "Property"]

Cpus == <<"c", "p", "u", "s">>

CpuAt == <<"c", "p", "u", "@">>

\* The structure blocks of the device trees, as the tokens of tokens():
\*   / { ch; cpus { cpu@0 { intc }; cpu@1; cpu-m }; mem@8 }
\*   / { cpus { cpu@0 { cpu@7 } } }
\*   / { cpus-x { cpu@9 }; cpus { cpu@0; cpu@1 } }
\*   / { cpus { } }
\*   / { mem@8; cpus { cpu@0 } }
Trees ==
    { << Begin(<< >>), Prop,
         Begin(<<"c", "h">>), Prop, End,
         Begin(Cpus), Prop,
         Begin(CpuAt \o <<"0">>), Prop, Begin(<<"i", "n", "t", "c">>), End,
         End,
         Begin(CpuAt \o <<"1">>), Prop, End,
         Begin(<<"c", "p", "u", "-", "m">>), End,
         End,
         Begin(<<"m", "e", "m", "@", "8">>), Prop, End,
         End >>,
      << Begin(<< >>),
         Begin(Cpus),
         Begin(CpuAt \o <<"0">>), Begin(CpuAt \o <<"7">>), End, End,
         End,
         End >>,
      << Begin(<< >>),
         Begin(Cpus \o <<"-", "x">>), Begin(CpuAt \o <<"9">>), End, End,
         Begin(Cpus),
         Begin(CpuAt \o <<"0">>), End, Begin(CpuAt \o <<"1">>), End,
         End,
         End >>,
      << Begin(<< >>), Begin(Cpus), Prop, End, End >>,
      << Begin(<< >>), Prop,
         Begin(<<"m", "e", "m", "@", "8">>), Prop, End,
         Begin(Cpus), Begin(CpuAt \o <<"0">>), Prop, End, End,
         End >> }

\* The paths of the lookups: "/cpus/cpu@", "/cpus", "/cpus/cpu@1", "/mem",
\* "/", "/ch", "/cpus/cpu-m"
Paths ==
    { << << >>, Cpus, CpuAt >>,
      << << >>, Cpus >>,
      << << >>, Cpus, CpuAt \o <<"1">> >>,
      << << >>, <<"m", "e", "m">> >>,
      << << >> >>,
      << << >>, <<"c", "h">> >>,
      << << >>, Cpus, <<"c", "p", "u", "-", "m">> >> }

\* the iterator of find_nodes and find_node before the first token: pos is
\* the next token, part the next part of the path
NewWalk ==
    [pos |-> 1, nesting_level |-> 0, looking_level |-> 1, part |-> 1,
     last_part |-> [some |-> FALSE]]

\* The loop over the tokens, from the state w of the iterator until a node
\* is returned or the lookup ends.  keep is TRUE for find_nodes, which
\* falls back to last_part when the path is used up.  node is the position
\* of the BeginNode token of the node that is returned, 0 for None.
RECURSIVE path_walk(_, _, _, _)
path_walk(toks, path, w, keep) ==
    IF w.pos > Len(toks) THEN [w |-> w, node |-> 0]
    ELSE LET tok == toks[w.pos]
             n == [w EXCEPT !.pos = @ + 1]
         IN  CASE tok.t = "BeginNode" ->
                    LET b == [n EXCEPT !.nesting_level = @ + 1]
                        peek == w.part <= Len(path)
                        next_part ==
                            IF peek THEN path[w.part] ELSE w.last_part.v
                    IN  IF b.nesting_level # b.looking_level
                        THEN path_walk(toks, path, b, keep)
                        ELSE IF ~peek /\ ~(keep /\ w.last_part.some)
                        THEN [w |-> b, node |-> 0]
                        ELSE IF ~starts_with(tok.name, next_part)
                        THEN path_walk(toks, path, b, keep)
                        ELSE IF w.part >= Len(path)
                        THEN [w |-> [b EXCEPT
                                        !.part = Len(path) + 1,
                                        !.last_part =
                                            [some |-> TRUE, v |-> next_part]],
                              node |-> w.pos]
                        ELSE path_walk(toks, path,
                                       [b EXCEPT !.part = @ + 1,
                                                 !.looking_level = @ + 1],
                                       keep)
               [] tok.t = "EndNode" ->
                    LET e == [n EXCEPT !.nesting_level = @ - 1]
                    IN  IF e.nesting_level < e.looking_level - 1
                        THEN [w |-> e, node |-> 0]
                        ELSE path_walk(toks, path, e, keep)
               [] OTHER -> path_walk(toks, path, n, keep)

\* find_node
find_node(toks, path) == path_walk(toks, path, NewWalk, FALSE).node

LookupInit ==
    /\ LookupAlone
    /\ \E tree \in Trees : lookup = [at |-> "tree", tree |-> tree]

\* find_nodes(path): the iterator is made, no token is read yet
FindNodes(path) ==
    /\ lookup.at = "tree"
    /\ lookup' = [at |-> "iter", tree |-> lookup.tree, path |-> path,
                  walk |-> NewWalk, out |-> << >>]
    /\ UNCHANGED lookupRest

\* one call of next() on the iterator of find_nodes, until it returns None
IterNext ==
    /\ lookup.at = "iter"
    /\ \E r \in {path_walk(lookup.tree, lookup.path, lookup.walk, TRUE)} :
           lookup' = IF r.node = 0
                     THEN [lookup EXCEPT !.at = "nodes", !.walk = r.w]
                     ELSE [lookup EXCEPT !.walk = r.w,
                                         !.out = Append(@, r.node)]
    /\ UNCHANGED lookupRest

\* find_node(path)
FindNode(path) ==
    /\ lookup.at = "tree"
    /\ lookup' = [at |-> "node", tree |-> lookup.tree, path |-> path,
                  node |-> find_node(lookup.tree, path)]
    /\ UNCHANGED lookupRest

LookupNext ==
    \/ \E path \in Paths : FindNodes(path)
    \/ IterNext
    \/ \E path \in Paths : FindNode(path)

SpecLookup == LookupInit /\ [][LookupNext]_vars

\* the names of the nodes that are open after the first k tokens, from the
\* root on
RECURSIVE OpenNames(_, _)
OpenNames(toks, k) ==
    IF k = 0 THEN << >>
    ELSE LET before == OpenNames(toks, k - 1)
         IN  CASE toks[k].t = "BeginNode" -> Append(before, toks[k].name)
               [] toks[k].t = "EndNode" ->
                      SubSeq(before, 1, Len(before) - 1)
               [] OTHER -> before

\* the nodes of the tree, each the position of its BeginNode token
NodesOf(toks) == {k \in DOMAIN toks : toks[k].t = "BeginNode"}

\* the node k is at the path: its ancestors have the names of the parts
\* before the last, its own name begins with the last part
AtPath(toks, k, path) ==
    LET names == OpenNames(toks, k)
    IN  /\ Len(names) = Len(path)
        /\ \A i \in 1 .. Len(path) - 1 : names[i] = path[i]
        /\ starts_with(names[Len(path)], path[Len(path)])

\* the members of a set of numbers in ascending order
RECURSIVE Ascending(_)
Ascending(S) ==
    IF S = {} THEN << >>
    ELSE LET least == CHOOSE x \in S : \A y \in S : x <= y
         IN  <<least>> \o Ascending(S \ {least})

\* C37: find_nodes yields, in document order and once each, the nodes at
\* the path and no other node, and find_node returns a node whenever a
\* node with the given path is in the tree.
C37_PathLookup ==
    /\ lookup.at = "nodes" =>
           lookup.out =
               Ascending({k \in NodesOf(lookup.tree) :
                             AtPath(lookup.tree, k, lookup.path)})
    /\ lookup.at = "node" =>
           ((\E k \in NodesOf(lookup.tree) :
                 OpenNames(lookup.tree, k) = lookup.path)
                => lookup.node # 0)
\* ------------------------------------------------------------------------
\* kernel/src/vmem/vaddr.rs VirtualAddressAllocator
\* An entry of the bitmap is a u64 in the kernel and has ENTRY_BITS bits
\* here.  Addresses are written less KERNEL_VMEM_ALLOC_BASE, so start is 0.
\* ------------------------------------------------------------------------

\* Number of bits of an entry of the bitmap; the kernel has 64.
ENTRY_BITS == 4

\* Largest length of the bitmap.
MaxEntries == 4

\* Number of next_vaddr and free_vaddr calls in one run.
MaxCalls == 4

\* Number of nested next_vaddr calls the stack has room for.
MaxDepth == 10

\* vaddr.rs: FULL_ENTRY = u64::MAX
FULL_ENTRY == Pow2(ENTRY_BITS) - 1

\* vaddr.rs: BIT_SIZE = PageSize::Megapage.size()
BIT_SIZE == 2 * MIB

\* u64::trailing_ones
RECURSIVE trailing_ones(_)
trailing_ones(entry) ==
    IF entry % 2 = 0 THEN 0 ELSE 1 + trailing_ones(entry \div 2)

\* slice::windows(k).enumerate(): the indices, from 0, of the windows of k
\* entries
Windows(bitmap, k) == 0 .. Len(bitmap) - k

\* next_vaddr for n >= 64: the first window of num_entries empty entries is
\* set to FULL_ENTRY.  found is FALSE when the loop ends without a return.
scan_entries(bitmap, start, n) ==
    LET num_entries == (n + ENTRY_BITS - 1) \div ENTRY_BITS
        empty == {idx \in Windows(bitmap, num_entries) :
                     \A k \in 1 .. num_entries : bitmap[idx + k] = 0}
    IN  IF empty = {} THEN [found |-> FALSE, bitmap |-> bitmap]
        ELSE LET idx == CHOOSE i \in empty : \A j \in empty : i <= j
             IN  [found |-> TRUE,
                  bitmap |-> [k \in DOMAIN bitmap |->
                                 IF k - 1 \in idx .. idx + num_entries - 1
                                 THEN FULL_ENTRY ELSE bitmap[k]],
                  addr |-> start + idx * (ENTRY_BITS * BIT_SIZE)]

\* next_vaddr for n < 64, the test of one entry: it is not full, and
\* (*entry >> bit) & mask == 0 for bit = entry.trailing_ones()
entry_fits(entry, n) ==
    /\ entry # FULL_ENTRY
    /\ LowBits(Shr(entry, trailing_ones(entry)), n) = 0

\* next_vaddr for n < 64: the first entry that passes the test gets
\* *entry |= mask << bit, the shift in the width of the entry
scan_bits(bitmap, start, n) ==
    LET mask == Pow2(n) - 1
        fits == {idx \in 0 .. Len(bitmap) - 1 :
                    entry_fits(bitmap[idx + 1], n)}
    IN  IF fits = {} THEN [found |-> FALSE, bitmap |-> bitmap]
        ELSE LET idx == CHOOSE i \in fits : \A j \in fits : i <= j
                 entry == bitmap[idx + 1]
                 bit == trailing_ones(entry)
             IN  [found |-> TRUE,
                  bitmap |-> [bitmap EXCEPT
                                 ![idx + 1] =
                                     entry + LowBits(mask * Pow2(bit),
                                                     ENTRY_BITS)],
                  addr |-> start + idx * (ENTRY_BITS * BIT_SIZE)
                               + bit * BIT_SIZE]

\* next_vaddr up to the return of an address or the end of the loop
scan(bitmap, start, n) ==
    IF n >= ENTRY_BITS THEN scan_entries(bitmap, start, n)
    ELSE scan_bits(bitmap, start, n)

\* Vec::resize(bitmap.len() * 2, 0)
resize(bitmap) ==
    [k \in 1 .. 2 * Len(bitmap) |->
        IF k <= Len(bitmap) THEN bitmap[k] ELSE 0]

\* free_vaddr.  res is "panic" when the index is outside of the bitmap.
free_vaddr(bitmap, start, addr, n) ==
    LET entry == (addr - start) \div (ENTRY_BITS * BIT_SIZE)
        num_entries == (n + ENTRY_BITS - 1) \div ENTRY_BITS
        bit == ((addr - start) \div BIT_SIZE) % ENTRY_BITS
    IN  IF n >= ENTRY_BITS
        THEN IF entry + num_entries > Len(bitmap)
             THEN [res |-> "panic", bitmap |-> bitmap]
             ELSE [res |-> "Ok",
                   bitmap |-> [k \in DOMAIN bitmap |->
                                  IF k - 1 \in entry .. entry + num_entries - 1
                                  THEN 0 ELSE bitmap[k]]]
        ELSE IF entry >= Len(bitmap)
        THEN [res |-> "panic", bitmap |-> bitmap]
        ELSE \* mask = !((1 << bit) - 1); *entry &= mask
             [res |-> "Ok",
              bitmap |-> [bitmap EXCEPT
                             ![entry + 1] = @ - LowBits(@, bit)]]

\* the megapages, counted from start, whose bit is set in the bitmap
Bits(bitmap) ==
    {(idx - 1) * ENTRY_BITS + b :
         idx \in DOMAIN bitmap, b \in 0 .. ENTRY_BITS - 1} \cap
    {p \in 0 .. Len(bitmap) * ENTRY_BITS - 1 :
         Shr(bitmap[p \div ENTRY_BITS + 1], p % ENTRY_BITS) % 2 = 1}

\* VirtualAddressAllocator::new(start): the bitmap is Vec::new_in
VaddrInit ==
    /\ VaddrAlone
    /\ va = [at |-> "idle", bitmap |-> << >>, start |-> 0, live |-> {},
             calls |-> 0, last |-> [op |-> "new"]]

\* The allocator with a bitmap of one or two free entries.  new() gives the
\* bitmap no entry and next_vaddr cannot give it one; this is the allocator
\* as it would be after a first growth.
GrownInit ==
    /\ VaddrAlone
    /\ \E len \in 1 .. 2 :
           va = [at |-> "idle", bitmap |-> [k \in 1 .. len |-> 0],
                 start |-> 0, live |-> {}, calls |-> 0,
                 last |-> [op |-> "new"]]

\* next_vaddr(n) is called
NextVaddr(n) ==
    /\ va.at = "idle"
    /\ va.calls < MaxCalls
    /\ va' = [at |-> "scan", n |-> n, depth |-> 0,
              calls |-> va.calls + 1] @@ va
    /\ UNCHANGED vaddrRest

\* next_vaddr: the loop over the bitmap; an address is returned, or the loop
\* ends without one
Scan ==
    /\ va.at = "scan"
    /\ \E r \in {scan(va.bitmap, va.start, va.n)} :
           va' = IF r.found
                 THEN [va EXCEPT
                          !.at = "idle",
                          !.bitmap = r.bitmap,
                          !.live = @ \cup
                                   {[addr |-> r.addr, n |-> va.n,
                                     marked |-> Bits(r.bitmap)
                                                \ Bits(va.bitmap)]},
                          !.last = [op |-> "next_vaddr", n |-> va.n,
                                    addr |-> r.addr]]
                 ELSE [va EXCEPT !.at = "grow"]
    /\ UNCHANGED vaddrRest

\* next_vaddr: bitmap.resize(bitmap.len() * 2, 0) and the nested call
\* self.next_vaddr(n); the stack has room for MaxDepth of them
Grow ==
    /\ va.at = "grow"
    /\ 2 * Len(va.bitmap) <= MaxEntries
    /\ va' = IF va.depth < MaxDepth
             THEN [va EXCEPT !.at = "scan", !.bitmap = resize(@),
                             !.depth = @ + 1]
             ELSE [va EXCEPT !.at = "overflow", !.bitmap = resize(@)]
    /\ UNCHANGED vaddrRest

\* free_vaddr(addr, n) for an allocation of next_vaddr(n) that is not freed
\* yet
FreeVaddr(alloc) ==
    /\ va.at = "idle"
    /\ va.calls < MaxCalls
    /\ alloc \in va.live
    /\ \E r \in {free_vaddr(va.bitmap, va.start, alloc.addr, alloc.n)} :
           va' = [va EXCEPT
                     !.at = IF r.res = "Ok" THEN "idle" ELSE "panic",
                     !.bitmap = r.bitmap,
                     !.live = @ \ {alloc},
                     !.calls = @ + 1,
                     !.last = [op |-> "free_vaddr", alloc |-> alloc,
                               before |-> va.bitmap]]
    /\ UNCHANGED vaddrRest

\* the requests: less than an entry, an entry, more than an entry
Requests == 1 .. ENTRY_BITS + 1

VaddrNext ==
    \/ \E n \in Requests : NextVaddr(n)
    \/ Scan
    \/ Grow

SpecVaddr == VaddrInit /\ [][VaddrNext]_vars

\* the hart goes on with the call it is in
FairSpecVaddr == SpecVaddr /\ WF_vars(Scan \/ Grow)

GrownNext ==
    \/ VaddrNext
    \/ \E alloc \in va.live : FreeVaddr(alloc)

SpecGrown == GrownInit /\ [][GrownNext]_vars

\* the megapages, counted from start, of the range [addr, addr + n * 2 MiB)
PagesOf(alloc) ==
    {(alloc.addr - va.start) \div BIT_SIZE + k : k \in 0 .. alloc.n - 1}

C40_Terminates == va.at = "scan" ~> va.at = "idle"

====
